---- MODULE Spec2Model ----
(***************************************************************************)
(* Model of the mention-detection engine of src/analyzers/                 *)
(* comment_analyzer.py (class CommentAnalyzer).                            *)
(*                                                                         *)
(* A text is a sequence of characters.  A character is written as an ASCII *)
(* name of the code point it stands for:                                   *)
(*   "HAYASHI" U+6797 (kanji)      "KO"   U+5C0F (kanji)                   *)
(*   "HANASHI" U+8A71 (kanji)                                              *)
(*   "SHI"     U+6C0F (kanji, the one-character honorific)                 *)
(*   "SHA" U+793E, "CHOU" U+9577 (kanji; together the honorific shachou)   *)
(*   "SEN" U+5148, "SEI" U+751F (kanji; together sensei)                   *)
(*   "KIMI" U+541B (kanji, the honorific kun written as one kanji)         *)
(*   "SA" U+3055, "N" U+3093, "CHI" U+3061, "SMALL_YA" U+3083,             *)
(*   "KU" U+304F (hiragana; san, chan, kun)                                *)
(*   "HA" "GA" "WO" "NI" "HE" "TO" "YA" "NO" "DE" "MO" (hiragana, the      *)
(*   particles)                                                            *)
(*   "IWA" U+5CA9, "WELL" U+4E95 (kanji; together the name Iwai)           *)
(*   "TAI" U+5BFE, "KETSU" U+6C7A, "OMO" U+9762, "SHIRO" U+767D (kanji)    *)
(*   "SU" U+3059, "GO" U+3054, "I" U+3044, "KA" U+304B,                    *)
(*   "SMALL_TSU" U+3063, "TA" U+305F (hiragana)                            *)
(*   "a" U+0061 (ASCII letter)     "BANG" U+0021 (!)                       *)
(*   "SP" U+0020 (space)  "TAB" U+0009  "IDEO_SP" U+3000 (full-width space)*)
(*   "FW_a" U+FF41 (full-width a)  "FW_BANG" U+FF01 (full-width !)         *)
(* Positions are 0-based as in the Python code; a Python Optional[int] is  *)
(* the empty sequence (None) or a one-element sequence <<pos>>.            *)
(***************************************************************************)
EXTENDS Integers, Sequences, FiniteSets, TLC

VARIABLES
    tigers,          \* self.tigers: the roster, as the ordered list of its keys
    aliases,         \* self.aliases: tiger_id -> ordered list of alias entries
    comment_text,    \* argument of find_tiger_mentions
    target_tigers,   \* argument of find_tiger_mentions (None or a list of ids)
    pc,              \* find_tiger_mentions: "call", "done" or "raised" ("idle": no call)
    result,          \* the returned dict {normalized_text, mentions}
    warned,          \* number of UserWarning signalled by warnings.warn
    m_alias,         \* _match_alias_with_boundary: alias
    m_text,          \* _match_alias_with_boundary: text
    m_require,       \* _match_alias_with_boundary: require_suffix
    m_start,         \* _match_alias_with_boundary: local start
    m_pc,            \* _match_alias_with_boundary: "loop" or "return" ("idle": no call)
    m_ret,           \* _match_alias_with_boundary: returned Optional[int]
    p_alias,         \* _should_require_suffix: alias
    p_alias_type,    \* _should_require_suffix: alias_type
    p_pc,            \* _should_require_suffix: "call" or "return" ("idle": no call)
    p_ret,           \* _should_require_suffix: returned bool
    n_text,          \* normalize_text: text of the first call
    n_pc,            \* normalize_text: "call", "once", "twice" ("idle": no call)
    n_first,         \* normalize_text: value returned by the first call
    n_second,        \* normalize_text: value returned for n_first
    w_variant,       \* the comment of comment_text as typed another way
    w_pc,            \* find_tiger_mentions(w_variant, ...): "typing", "done", "raised"
    w_result,        \* the dict returned for w_variant
    analyzed_comments,  \* calculate_video_stats: the comment batch
    appearing_tigers,   \* calculate_video_stats: the appearing-tiger ids
    v_pc,               \* calculate_video_stats: "call", "done", "raised" ("idle")
    v_ret,              \* calculate_video_stats: the returned dict
    video_stats_list,      \* calculate_period_stats: [{video_id, stats}, ...]
    appearing_tigers_map,  \* calculate_period_stats: video_id -> appearing ids
    q_pc,                  \* calculate_period_stats: "collect", "done", "raised" ("idle")
    q_ret,                 \* calculate_period_stats: the returned dict
    a_comments,      \* analyze_comments: the argument comments
    a_pc,            \* analyze_comments: "loop", "done", "raised" ("idle": no call)
    a_results,       \* analyze_comments: the local results
    call_text,       \* per worker: the text its call of find_tiger_mentions resolves
    call_targets,    \* per worker: the target_tigers argument of its call
    call_pc,         \* per worker: "call", "scan", "done", "raised"
    call_normalized, \* per worker: the local normalized_text
    call_scanned,    \* per worker: candidates the loop of line 225 has passed
    call_matches,    \* per worker: the local all_matches
    call_result,     \* per worker: the returned dict
    solo_tiger,      \* the candidate that is also resolved on its own
    solo_pc,         \* find_tiger_mentions(text, [solo_tiger]): "call", "done", "raised"
    solo_result      \* the dict returned for [solo_tiger]

vars == <<tigers, aliases, comment_text, target_tigers, pc, result, warned,
          m_alias, m_text, m_require, m_start, m_pc, m_ret,
          p_alias, p_alias_type, p_pc, p_ret,
          n_text, n_pc, n_first, n_second,
          w_variant, w_pc, w_result,
          analyzed_comments, appearing_tigers, v_pc, v_ret,
          video_stats_list, appearing_tigers_map, q_pc, q_ret,
          a_comments, a_pc, a_results,
          call_text, call_targets, call_pc, call_normalized, call_scanned,
          call_matches, call_result,
          solo_tiger, solo_pc, solo_result>>

resolverVars == <<tigers, aliases, comment_text, target_tigers, pc, result, warned>>
matcherVars == <<m_alias, m_text, m_require, m_start, m_pc, m_ret>>
policyVars == <<p_alias, p_alias_type, p_pc, p_ret>>
normVars == <<n_text, n_pc, n_first, n_second>>
widthVars == <<w_variant, w_pc, w_result>>
videoVars == <<analyzed_comments, appearing_tigers, v_pc, v_ret>>
periodVars == <<video_stats_list, appearing_tigers_map, q_pc, q_ret>>
analyzeVars == <<a_comments, a_pc, a_results>>
workerVars == <<call_text, call_targets, call_pc, call_normalized, call_scanned,
                call_matches, call_result>>
soloVars == <<solo_tiger, solo_pc, solo_result>>

\* no call of find_tiger_mentions
ResolverIdle ==
    /\ tigers = <<>>
    /\ aliases = <<>>
    /\ comment_text = <<>>
    /\ target_tigers = <<>>
    /\ pc = "idle"
    /\ result = <<>>
    /\ warned = 0

\* no call of _match_alias_with_boundary
MatcherIdle ==
    /\ m_alias = <<>>
    /\ m_text = <<>>
    /\ m_require = FALSE
    /\ m_start = 0
    /\ m_pc = "idle"
    /\ m_ret = <<>>

\* no call of _should_require_suffix
PolicyIdle ==
    /\ p_alias = <<>>
    /\ p_alias_type = ""
    /\ p_pc = "idle"
    /\ p_ret = FALSE

\* no call of normalize_text on its own
NormIdle ==
    /\ n_text = <<>>
    /\ n_pc = "idle"
    /\ n_first = <<>>
    /\ n_second = <<>>

\* no call of calculate_video_stats
VideoIdle ==
    /\ analyzed_comments = <<>>
    /\ appearing_tigers = <<>>
    /\ v_pc = "idle"
    /\ v_ret = <<>>

\* no call of calculate_period_stats
PeriodIdle ==
    /\ video_stats_list = <<>>
    /\ appearing_tigers_map = <<>>
    /\ q_pc = "idle"
    /\ q_ret = <<>>

\* no second typing of the comment
WidthIdle ==
    /\ w_variant = <<>>
    /\ w_pc = "idle"
    /\ w_result = <<>>

\* no call of analyze_comments
AnalyzeIdle ==
    /\ a_comments = <<>>
    /\ a_pc = "idle"
    /\ a_results = <<>>

\* no worker
WorkersIdle ==
    /\ call_text = <<>>
    /\ call_targets = <<>>
    /\ call_pc = <<>>
    /\ call_normalized = <<>>
    /\ call_scanned = <<>>
    /\ call_matches = <<>>
    /\ call_result = <<>>

\* no call for one candidate on its own
SoloIdle ==
    /\ solo_tiger = ""
    /\ solo_pc = "idle"
    /\ solo_result = <<>>

None == <<>>
Some(x) == <<x>>

-----------------------------------------------------------------------------
(* Character classes and honorific suffixes *)

\* r'[一-龠ぁ-んァ-ヶー]' restricted to the characters named above
JAPANESE_CHAR_PATTERN ==
    {"HAYASHI", "KO", "HANASHI", "SHI", "SHA", "CHOU", "SEN", "SEI", "KIMI",
     "SA", "N", "CHI", "SMALL_YA", "KU",
     "HA", "GA", "WO", "NI", "HE", "TO", "YA", "NO", "DE", "MO",
     "IWA", "WELL", "TAI", "KETSU", "OMO", "SHIRO",
     "SU", "GO", "I", "KA", "SMALL_TSU", "TA"}

\* r'[a-zA-Z0-9]' restricted to the characters named above
ALPHANUMERIC_PATTERN == {"a"}

\* particles = ['は', 'が', 'を', 'に', 'へ', 'と', 'や', 'の', 'で', 'も']
particles == {"HA", "GA", "WO", "NI", "HE", "TO", "YA", "NO", "DE", "MO"}

\* r'(?:社長|さん|氏|先生|ちゃん|くん|君)'
SUFFIX_PATTERN ==
    {<<"SHA", "CHOU">>, <<"SA", "N">>, <<"SHI">>, <<"SEN", "SEI">>,
     <<"CHI", "SMALL_YA", "N">>, <<"KU", "N">>, <<"KIMI">>}

\* Python slice s[from:] with a 0-based index
SliceFrom(s, from) == SubSeq(s, from + 1, Len(s))

\* s.startswith(p)
StartsWith(s, p) == Len(p) <= Len(s) /\ SubSeq(s, 1, Len(p)) = p

\* s.endswith(p)
EndsWith(s, p) == Len(p) <= Len(s) /\ SubSeq(s, Len(s) - Len(p) + 1, Len(s)) = p

\* re.match(self.SUFFIX_PATTERN, remaining)
MatchSuffix(remaining) == \E sfx \in SUFFIX_PATTERN : StartsWith(remaining, sfx)

\* re.search(self.SUFFIX_PATTERN + r'$', alias)
SearchSuffixAtEnd(alias) == \E sfx \in SUFFIX_PATTERN : EndsWith(alias, sfx)

\* re.match(JAPANESE_CHAR_PATTERN, c) or re.match(ALPHANUMERIC_PATTERN, c)
IsJapaneseOrAlnum(c) == c \in JAPANESE_CHAR_PATTERN \/ c \in ALPHANUMERIC_PATTERN

-----------------------------------------------------------------------------
(* CommentAnalyzer._is_word_boundary *)

\* faulty variant: the particle exception of lines 87-88 is dropped
LeftRejectsNoParticles(text, start) ==
    /\ start > 0
    /\ IsJapaneseOrAlnum(text[start])

\* lines 82-89: the check of the previous character; TRUE when it rejects
LeftRejects(text, start) ==
    /\ start > 0
    /\ IsJapaneseOrAlnum(text[start])          \* prev_char = text[start - 1]
    /\ text[start] \notin particles

\* threshold of line 100: len(alias) >= 4
LongAliasLen == 4

\* faulty variant: the long-alias relaxation of lines 100-101 is dropped
RightCheckNoLongRule(text, end, alias) ==
    IF end < Len(text) /\ IsJapaneseOrAlnum(text[end + 1])
    THEN IF SearchSuffixAtEnd(alias) THEN TRUE
         ELSE MatchSuffix(SliceFrom(text, end))
    ELSE TRUE

\* lines 92-107: the check of the next character
RightCheck(text, end, alias) ==
    IF end < Len(text) /\ IsJapaneseOrAlnum(text[end + 1])   \* next_char = text[end]
    THEN IF SearchSuffixAtEnd(alias) THEN TRUE
         ELSE IF Len(alias) >= LongAliasLen THEN TRUE
         ELSE MatchSuffix(SliceFrom(text, end))
    ELSE TRUE

_is_word_boundary(text, start, end, alias) ==
    IF LeftRejects(text, start) THEN FALSE
    ELSE RightCheck(text, end, alias)

-----------------------------------------------------------------------------
(* CommentAnalyzer._match_alias_with_boundary *)

\* the positions i >= start with text[i:i+len(alias)] == alias
OccursAt(text, alias, i) ==
    /\ i >= 0
    /\ i + Len(alias) <= Len(text)
    /\ SubSeq(text, i + 1, i + Len(alias)) = alias

\* text.find(alias, start): the lowest such position, or -1
Find(text, alias, start) ==
    LET hits == {i \in start .. (Len(text) - Len(alias)) : OccursAt(text, alias, i)}
    IN IF hits = {} THEN -1
       ELSE CHOOSE i \in hits : \A j \in hits : i <= j

\* faulty variant: the suffix gate of lines 131-137 is dropped, an occurrence
\* that passes the boundary check is returned at once
AcceptsNoGate(alias, text, require_suffix, pos) ==
    _is_word_boundary(text, pos, pos + Len(alias), alias)

\* lines 129-137: is the occurrence at pos returned?
Accepts(alias, text, require_suffix, pos) ==
    LET end == pos + Len(alias)
    IN /\ _is_word_boundary(text, pos, end, alias)
       /\ (require_suffix => MatchSuffix(SliceFrom(text, end)))

\* faulty variant: after a rejection the search restarts behind the occurrence,
\* start = pos + len(alias), so overlapping occurrences are never tried
MatchIterationSkipsOverlap(alias, text, require_suffix, start) ==
    LET pos == Find(text, alias, start)
    IN IF pos = -1 THEN [ret |-> TRUE, value |-> None, start |-> start]
       ELSE IF Accepts(alias, text, require_suffix, pos)
            THEN [ret |-> TRUE, value |-> Some(pos), start |-> start]
            ELSE [ret |-> FALSE, value |-> None,
                  start |-> IF Len(alias) = 0 THEN pos + 1 ELSE pos + Len(alias)]

\* faulty variant: after a rejection the search restarts at the occurrence
\* itself, start = pos
MatchIterationSamePosition(alias, text, require_suffix, start) ==
    LET pos == Find(text, alias, start)
    IN IF pos = -1 THEN [ret |-> TRUE, value |-> None, start |-> start]
       ELSE IF Accepts(alias, text, require_suffix, pos)
            THEN [ret |-> TRUE, value |-> Some(pos), start |-> start]
            ELSE [ret |-> FALSE, value |-> None, start |-> pos]

\* one iteration of the while loop (lines 123-140):
\* [ret |-> TRUE, value |-> ...] when it returns, [ret |-> FALSE, start |-> ...] otherwise
MatchIteration(alias, text, require_suffix, start) ==
    LET pos == Find(text, alias, start)
    IN IF pos = -1 THEN [ret |-> TRUE, value |-> None, start |-> start]
       ELSE IF Accepts(alias, text, require_suffix, pos)
            THEN [ret |-> TRUE, value |-> Some(pos), start |-> start]
            ELSE [ret |-> FALSE, value |-> None, start |-> pos + 1]

\* the loop run to its return, from the given start
RECURSIVE MatchLoop(_, _, _, _)
MatchLoop(alias, text, require_suffix, start) ==
    LET it == MatchIteration(alias, text, require_suffix, start)
    IN IF it.ret THEN it.value
       ELSE MatchLoop(alias, text, require_suffix, it.start)

_match_alias_with_boundary(alias, text, require_suffix) ==
    MatchLoop(alias, text, require_suffix, 0)

-----------------------------------------------------------------------------
(* CommentAnalyzer.normalize_text *)

\* unicodedata.normalize('NFKC', text), character by character: the full-width
\* forms become their ASCII forms, the ideographic space an ASCII space
NfkcChar(c) ==
    CASE c = "FW_a" -> "a"
      [] c = "FW_BANG" -> "BANG"
      [] c = "IDEO_SP" -> "SP"
      [] OTHER -> c

\* the compatibility decomposition of one character: U+00B4 (acute accent)
\* becomes a space followed by U+0301 (combining acute accent)
NfkcDecomposition(c) ==
    IF c = "ACUTE" THEN <<"SP", "COMB_ACUTE">> ELSE <<NfkcChar(c)>>

RECURSIVE NfkcUpTo(_, _)
NfkcUpTo(text, n) ==
    IF n = 0 THEN <<>>
    ELSE NfkcUpTo(text, n - 1) \o NfkcDecomposition(text[n])

\* faulty variant: the NFKC step of line 58 is left out
NfkcNone(text) == text

\* unicodedata.normalize('NFKC', text); U+0301 only ever follows a space or
\* opens the text here, where it composes with nothing
NFKC(text) == NfkcUpTo(text, Len(text))

\* the characters r'\s' matches and str.strip() removes
IsSpace(c) == c \in {"SP", "TAB", "IDEO_SP"}

\* faulty variant: re.sub(r'\s\s', ' ', text), every pair of whitespace
\* characters becomes one space and a single one is left as it is
CollapsePairs(text) ==
    LET idx == [i \in 1..Len(text) |-> i]
        runStart(i) == CHOOSE j \in 1..i :
                          /\ \A k \in j..i : IsSpace(text[k])
                          /\ (j = 1 \/ ~IsSpace(text[j - 1]))
        first(i) == ~IsSpace(text[i]) \/ (i - runStart(i)) % 2 = 0
        paired(i) == IsSpace(text[i]) /\ i < Len(text) /\ IsSpace(text[i + 1])
        kept == SelectSeq(idx, first)
    IN [k \in 1..Len(kept) |-> IF paired(kept[k]) THEN "SP" ELSE text[kept[k]]]

\* re.sub(r'\s+', ' ', text): every maximal run of whitespace becomes one space
CollapseWhitespace(text) ==
    LET idx == [i \in 1..Len(text) |-> i]
        keep(i) == ~IsSpace(text[i]) \/ i = 1 \/ ~IsSpace(text[i - 1])
        kept == SelectSeq(idx, keep)
    IN [k \in 1..Len(kept) |-> IF IsSpace(text[kept[k]]) THEN "SP" ELSE text[kept[k]]]

\* text.strip()
Strip(text) ==
    LET solid == {i \in 1..Len(text) : ~IsSpace(text[i])}
    IN IF solid = {} THEN <<>>
       ELSE SubSeq(text,
                   CHOOSE i \in solid : \A j \in solid : i <= j,
                   CHOOSE i \in solid : \A j \in solid : i >= j)

\* faulty variant: the whitespace is collapsed before the NFKC step
NormalizeCollapseFirst(text) == Strip(NFKC(CollapseWhitespace(text)))

normalize_text(text) == Strip(CollapseWhitespace(NFKC(text)))

-----------------------------------------------------------------------------
(* CommentAnalyzer._should_require_suffix, _calculate_match_score *)

\* line 156: len(alias) <= 3
ShortTypeLen == 3
\* line 160: len(alias) <= 2
ShortAliasLen == 2

\* faulty variant: the rule of lines 159-161 for aliases of at most 2
\* characters is dropped
ShouldRequireSuffixTypedOnly(alias, alias_type) ==
    IF Len(alias) <= ShortTypeLen /\ alias_type \in {"short", "casual", "hiragana", "katakana"}
    THEN TRUE
    ELSE FALSE

\* faulty variant: every alias of at most 3 characters requires a suffix
ShouldRequireSuffixUpTo3(alias, alias_type) ==
    IF Len(alias) <= ShortTypeLen THEN TRUE ELSE FALSE

_should_require_suffix(alias, alias_type) ==
    IF Len(alias) <= ShortTypeLen /\ alias_type \in {"short", "casual", "hiragana", "katakana"}
    THEN TRUE
    ELSE IF Len(alias) <= ShortAliasLen THEN TRUE
    ELSE FALSE

\* TYPE_PRIORITY (lines 19-29)
TYPE_PRIORITY ==
    [t \in {"fullname", "formal", "nickname", "casual", "business",
            "firstname", "hiragana", "katakana", "short"} |->
        CASE t = "fullname" -> 1
          [] t = "formal" -> 2
          [] t = "nickname" -> 3
          [] t = "casual" -> 4
          [] t = "business" -> 5
          [] t = "firstname" -> 6
          [] t = "hiragana" -> 7
          [] t = "katakana" -> 8
          [] t = "short" -> 9]

\* the default of self.TYPE_PRIORITY.get(alias_type, 99)
UnrankedTypeScore == 99

\* faulty variant: the priority is compared before the alias length
MatchScorePriorityFirst(alias, priority, alias_type) ==
    <<priority,
      0 - Len(alias),
      IF alias_type \in DOMAIN TYPE_PRIORITY THEN TYPE_PRIORITY[alias_type]
      ELSE UnrankedTypeScore>>

_calculate_match_score(alias, priority, alias_type) ==
    <<0 - Len(alias),
      priority,
      IF alias_type \in DOMAIN TYPE_PRIORITY THEN TYPE_PRIORITY[alias_type]
      ELSE UnrankedTypeScore>>

\* Python's a < b on two 3-tuples of integers
ScoreLess(a, b) ==
    \/ a[1] < b[1]
    \/ a[1] = b[1] /\ a[2] < b[2]
    \/ a[1] = b[1] /\ a[2] = b[2] /\ a[3] < b[3]

-----------------------------------------------------------------------------
(* CommentAnalyzer.find_tiger_mentions *)

\* faulty variant: only a missing list falls back, an empty list is scanned as it is
FallsBackNoneOnly(target) == target = None

\* line 215: target_tigers is None or len(target_tigers) == 0
FallsBack(target) == target = None \/ Len(target[1]) = 0

\* faulty variant: the candidate list is ignored and the full roster is always scanned
EffectiveTargetsAlwaysRoster(roster, target) == roster

\* lines 215-219: the candidates actually scanned
EffectiveTargets(roster, target) == IF FallsBack(target) THEN roster ELSE target[1]

\* lines 230-232: alias_info['alias'], ['type'], ['priority'] raise KeyError
\* when the entry lacks the key
EntryRaises(alias_info) == ~({"alias", "type", "priority"} \subseteq DOMAIN alias_info)

\* lines 225-232: the scan reaches an entry that raises
ScanRaises(table, targets) ==
    \E i \in 1..Len(targets) :
        /\ targets[i] \in DOMAIN table
        /\ \E j \in 1..Len(table[targets[i]]) : EntryRaises(table[targets[i]][j])

\* lines 234-238: does this entry match the normalized text?
EntryMatchPos(alias_info, normalized_text) ==
    _match_alias_with_boundary(
        alias_info.alias, normalized_text,
        _should_require_suffix(alias_info.alias, alias_info.type))

\* lines 240-249: the dict appended to all_matches
MatchDict(tiger_id, alias_info, match_pos) ==
    [tiger_id |-> tiger_id,
     alias |-> alias_info.alias,
     type |-> alias_info.type,
     priority |-> alias_info.priority,
     position |-> match_pos[1],
     score |-> _calculate_match_score(alias_info.alias, alias_info.priority, alias_info.type)]

\* faulty variant: the test of line 239 is dropped, every entry of a candidate
\* is recorded as a match
TigerMatchesUnfiltered(table, tiger_id, normalized_text) ==
    IF tiger_id \notin DOMAIN table THEN <<>>
    ELSE [k \in 1..Len(table[tiger_id]) |->
             MatchDict(tiger_id, table[tiger_id][k], Some(0))]

\* lines 229-249: the matches of one candidate, in the order of its alias list
TigerMatches(table, tiger_id, normalized_text) ==
    IF tiger_id \notin DOMAIN table THEN <<>>
    ELSE LET entries == table[tiger_id]
             idx == [j \in 1..Len(entries) |-> j]
             hit(j) == EntryMatchPos(entries[j], normalized_text) # None
             hits == SelectSeq(idx, hit)
         IN [k \in 1..Len(hits) |->
                MatchDict(tiger_id, entries[hits[k]],
                          EntryMatchPos(entries[hits[k]], normalized_text))]

\* lines 222-249: all_matches after the first n candidates
RECURSIVE AllMatches(_, _, _, _)
AllMatches(table, targets, normalized_text, n) ==
    IF n = 0 THEN <<>>
    ELSE AllMatches(table, targets, normalized_text, n - 1)
         \o TigerMatches(table, targets[n], normalized_text)

\* faulty variant: a match also replaces an entry of equal score (<= instead of <)
ReplacesOnTie(match, best) ==
    \/ \A k \in 1..Len(best) : best[k].tiger_id # match.tiger_id
    \/ \E k \in 1..Len(best) :
          best[k].tiger_id = match.tiger_id /\ ~ScoreLess(best[k].score, match.score)

\* line 255: does match replace (or first fill) the entry of its tiger?
Replaces(match, best) ==
    \/ \A k \in 1..Len(best) : best[k].tiger_id # match.tiger_id
    \/ \E k \in 1..Len(best) :
          best[k].tiger_id = match.tiger_id /\ ScoreLess(match.score, best[k].score)

\* faulty variant: the winner is appended to a list instead of replacing the entry
AssignAppends(best, match) == Append(best, match)

\* line 256: best_matches[tiger_id] = match; a dict keeps the position of a
\* key it already holds
Assign(best, match) ==
    IF \A k \in 1..Len(best) : best[k].tiger_id # match.tiger_id
    THEN Append(best, match)
    ELSE [k \in 1..Len(best) |->
             IF best[k].tiger_id = match.tiger_id THEN match ELSE best[k]]

\* lines 252-256: best_matches (as its items in dict order) after n matches
RECURSIVE BestMatches(_, _)
BestMatches(all_matches, n) ==
    IF n = 0 THEN <<>>
    ELSE LET best == BestMatches(all_matches, n - 1)
         IN IF Replaces(all_matches[n], best)
            THEN Assign(best, all_matches[n])
            ELSE best

\* lines 259-266
Mentions(best) ==
    [k \in 1..Len(best) |->
        [tiger_id |-> best[k].tiger_id,
         matched_alias |-> best[k].alias,
         alias_type |-> best[k].type,
         priority |-> best[k].priority]]

\* lines 221-266 for a table whose scanned entries are all well-formed
MentionsOf(table, targets, normalized_text) ==
    LET all_matches == AllMatches(table, targets, normalized_text, Len(targets))
    IN Mentions(BestMatches(all_matches, Len(all_matches)))

-----------------------------------------------------------------------------
(* Inputs of the model *)

\* longest text given to _match_alias_with_boundary
MaxMatchLen == 5

\* all sequences over S of length at most n
SeqsUpTo(S, n) == UNION {[1..k -> S] : k \in 0..n}

\* characters of the matcher's texts: a kanji, the kanji honorific, a particle,
\* a punctuation mark, an ASCII letter
MatchChars == {"HAYASHI", "SHI", "MO", "BANG", "a"}

\* the text of the boundary-rejection example: alias U+6797 inside
\* U+5C0F U+6797 U+3055 U+3093 U+306E U+8A71
KobayashiText == <<"KO", "HAYASHI", "SA", "N", "NO", "HANASHI">>

\* a text with three occurrences of the alias U+6797: before a punctuation
\* mark, before the honorific U+6C0F, and at the end of the text
SuffixGateText == <<"HAYASHI", "BANG", "HAYASHI", "SHI", "BANG", "HAYASHI">>

MatchTexts == SeqsUpTo(MatchChars, MaxMatchLen) \cup {KobayashiText, SuffixGateText}

\* aliases given to the matcher: the empty alias, a one-kanji name, a name with
\* its own honorific, a nickname whose occurrences overlap, a four-letter name
MatchAliases ==
    {<<>>, <<"HAYASHI">>, <<"HAYASHI", "SHI">>, <<"MO", "MO">>, <<"a", "a", "a", "a">>}

\* longest comment text given to find_tiger_mentions
MaxTextLen == 5

\* characters of the comments: two kanji of names, the kanji honorific, a space
CommentChars == {"HAYASHI", "KO", "SHI", "SP"}

CommentTexts == SeqsUpTo(CommentChars, MaxTextLen)

\* the roster (keys of self.tigers, in file order); noguchi has no alias list
Roster == <<"hayashi", "iwai", "noguchi">>

\* well-formed alias entries, with the alias texts U+6797, U+5C0F, U+5C0F U+6797,
\* U+5C0F U+6797 U+6C0F and U+6797 U+6C0F
WellFormedEntries ==
    {[alias |-> <<"HAYASHI">>, type |-> "short", priority |-> 2],
     [alias |-> <<"HAYASHI">>, type |-> "short", priority |-> 1],
     [alias |-> <<"KO">>, type |-> "short", priority |-> 2],
     [alias |-> <<"KO">>, type |-> "casual", priority |-> 2],
     [alias |-> <<"KO", "HAYASHI">>, type |-> "fullname", priority |-> 1],
     [alias |-> <<"KO", "HAYASHI", "SHI">>, type |-> "contextual", priority |-> 3],
     [alias |-> <<"HAYASHI", "SHI">>, type |-> "formal", priority |-> 1]}

\* malformed entries: one without its alias text, one without its category
MalformedEntries ==
    {[type |-> "formal", priority |-> 1],
     [alias |-> <<"HAYASHI">>, priority |-> 1]}

\* alias lists of one tiger: at most two well-formed entries, alias texts
\* unique in the list
AliasLists ==
    {<<>>} \cup {<<e>> : e \in WellFormedEntries}
    \cup {l \in WellFormedEntries \X WellFormedEntries : l[1].alias # l[2].alias}

\* the alias list of iwai: shares the alias U+6797 with hayashi's entries
IwaiAliases == <<[alias |-> <<"HAYASHI">>, type |-> "nickname", priority |-> 1]>>

AliasTable(hayashi_list) ==
    [t \in {"hayashi", "iwai"} |-> IF t = "hayashi" THEN hayashi_list ELSE IwaiAliases]

\* alias lists of hayashi used with every candidate list
RosterLists ==
    {<<[alias |-> <<"KO", "HAYASHI">>, type |-> "fullname", priority |-> 1],
       [alias |-> <<"KO", "HAYASHI", "SHI">>, type |-> "contextual", priority |-> 3]>>,
     <<[alias |-> <<"HAYASHI">>, type |-> "short", priority |-> 2],
       [alias |-> <<"KO">>, type |-> "short", priority |-> 2]>>}
    \cup {<<[alias |-> <<"KO">>, type |-> "casual", priority |-> 2], m>> :
             m \in MalformedEntries}

\* candidate lists: none, empty, one tiger, two, a repeated id, a tiger without
\* an alias list
TargetLists ==
    {None, Some(<<>>), Some(<<"hayashi">>), Some(<<"iwai">>),
     Some(<<"iwai", "hayashi">>), Some(<<"hayashi", "iwai", "hayashi">>),
     Some(<<"noguchi", "hayashi">>)}

-----------------------------------------------------------------------------
(* find_tiger_mentions as one call *)

Init ==
    /\ tigers = Roster
    /\ comment_text \in CommentTexts
    /\ \/ /\ aliases \in {AliasTable(l) : l \in AliasLists}
          /\ target_tigers = Some(<<"hayashi">>)
       \/ /\ aliases \in {AliasTable(l) : l \in RosterLists}
          /\ target_tigers \in TargetLists
    /\ pc = "call"
    /\ result = <<>>
    /\ warned = 0
    /\ MatcherIdle
    /\ PolicyIdle
    /\ NormIdle
    /\ WidthIdle
    /\ VideoIdle
    /\ PeriodIdle
    /\ AnalyzeIdle
    /\ WorkersIdle
    /\ SoloIdle

\* lines 211-271; a KeyError of lines 230-232 ends the call without a result
FindTigerMentions ==
    /\ pc = "call"
    /\ LET normalized_text == normalize_text(comment_text)
           targets == EffectiveTargets(tigers, target_tigers)
       IN /\ warned' = IF FallsBack(target_tigers) THEN warned + 1 ELSE warned
          /\ IF ScanRaises(aliases, targets)
             THEN /\ pc' = "raised"
                  /\ result' = result
             ELSE /\ pc' = "done"
                  /\ result' = [normalized_text |-> normalized_text,
                                mentions |-> MentionsOf(aliases, targets, normalized_text)]
    /\ UNCHANGED <<tigers, aliases, comment_text, target_tigers>>
    /\ UNCHANGED <<matcherVars, policyVars, normVars, widthVars, videoVars, periodVars,
                   analyzeVars, workerVars, soloVars>>

Next == FindTigerMentions

Spec == Init /\ [][Next]_vars

-----------------------------------------------------------------------------
(* Properties of find_tiger_mentions *)

\* the mention list of the finished call
ReturnedMentions == result.mentions

\* the candidates the finished call scanned
ScannedTargets == EffectiveTargets(tigers, target_tigers)

InSeq(x, seq) == \E i \in 1..Len(seq) : seq[i] = x

\* the entries of tiger t that match the normalized comment of the finished
\* call (indices in its list)
MatchingEntries(t) ==
    {j \in 1..Len(aliases[t]) :
        EntryMatchPos(aliases[t][j], result.normalized_text) # None}

\* the categories in the order of the claimed ranking, best first
ClaimCategoryOrder ==
    <<"fullname", "formal", "nickname", "casual", "business",
      "firstname", "hiragana", "katakana", "short">>

\* the score tuple as the claim states it: (negative alias length, authored
\* priority, category rank with unranked categories last)
EntryScore(e) ==
    <<0 - Len(e.alias),
      e.priority,
      IF InSeq(e.type, ClaimCategoryOrder)
      THEN CHOOSE r \in 1..Len(ClaimCategoryOrder) : ClaimCategoryOrder[r] = e.type
      ELSE Len(ClaimCategoryOrder) + 1>>

\* a is lexicographically smaller than b
LexLess(a, b) ==
    \E n \in 1..3 : a[n] < b[n] /\ \A k \in 1..(n - 1) : a[k] = b[k]

\* mention m reports exactly the fields of entry e
Reports(m, e) ==
    m.matched_alias = e.alias /\ m.alias_type = e.type /\ m.priority = e.priority

\* C1: the returned mention list never holds two Mentions with the same entity
\* id, whatever the comment and the candidate list (also one repeating an id).
C1_NoDuplicateMention ==
    pc = "done" =>
        \A i, j \in 1..Len(ReturnedMentions) :
            i # j => ReturnedMentions[i].tiger_id # ReturnedMentions[j].tiger_id

\* C1 witness: the candidate list repeats hayashi, two of hayashi's aliases match,
\* and the result holds a Mention of hayashi.
C1_Witness ==
    /\ pc = "done"
    /\ target_tigers = Some(<<"hayashi", "iwai", "hayashi">>)
    /\ Cardinality(MatchingEntries("hayashi")) = 2
    /\ \E i \in 1..Len(ReturnedMentions) : ReturnedMentions[i].tiger_id = "hayashi"

\* C2 as stated: for every candidate list passed, an entity that is not in the
\* list gets no Mention.
C2_Original ==
    (pc = "done" /\ target_tigers # None) =>
        \A i \in 1..Len(ReturnedMentions) :
            InSeq(ReturnedMentions[i].tiger_id, target_tigers[1])

\* C2 amended: for every NON-EMPTY candidate list passed, an entity that is not
\* in the list gets no Mention, even when one of its aliases occurs in the text
\* (an empty list falls back to the full roster).
C2_RosterScoping ==
    (pc = "done" /\ target_tigers # None /\ Len(target_tigers[1]) > 0) =>
        \A i \in 1..Len(ReturnedMentions) :
            InSeq(ReturnedMentions[i].tiger_id, target_tigers[1])

\* C2 witness: iwai is not a candidate, iwai's alias would match the comment,
\* and the call has returned a Mention of hayashi only.
C2_Witness ==
    /\ pc = "done"
    /\ target_tigers = Some(<<"hayashi">>)
    /\ MatchingEntries("iwai") # {}
    /\ Len(ReturnedMentions) = 1

\* C3: for each scanned entity with a matching alias there is a Mention, and it
\* reports a matching alias whose score tuple is lexicographically smallest
\* among the entity's matching aliases; so a longer matching alias beats a
\* shorter one whatever the priorities, categories and list order.
C3_WinnerSelection ==
    pc = "done" =>
        \A t \in DOMAIN aliases :
            (InSeq(t, ScannedTargets) /\ MatchingEntries(t) # {}) =>
                \E i \in 1..Len(ReturnedMentions) :
                    /\ ReturnedMentions[i].tiger_id = t
                    /\ \E j \in MatchingEntries(t) :
                          /\ Reports(ReturnedMentions[i], aliases[t][j])
                          /\ \A k \in MatchingEntries(t) :
                                /\ ~LexLess(EntryScore(aliases[t][k]),
                                              EntryScore(aliases[t][j]))
                                /\ Len(aliases[t][k].alias) <= Len(aliases[t][j].alias)

\* C3 witness: hayashi's shorter alias (better priority and category, first in
\* the list) and longer alias both match, and the Mention reports the longer.
C3_Witness ==
    /\ pc = "done"
    /\ target_tigers = Some(<<"hayashi">>)
    /\ Len(aliases["hayashi"]) = 2
    /\ MatchingEntries("hayashi") = {1, 2}
    /\ Len(aliases["hayashi"][1].alias) < Len(aliases["hayashi"][2].alias)
    /\ aliases["hayashi"][1].priority < aliases["hayashi"][2].priority
    /\ Len(ReturnedMentions) = 1
    /\ Reports(ReturnedMentions[1], aliases["hayashi"][2])

\* C4: when matching aliases of one entity have equal score tuples, the Mention
\* never reports the later one of the alias list: among the best-scoring
\* matching aliases it reports the first.
C4_TieBreakFirstSeen ==
    pc = "done" =>
        \A t \in DOMAIN aliases :
            (InSeq(t, ScannedTargets) /\ MatchingEntries(t) # {}) =>
                LET best == {j \in MatchingEntries(t) :
                                \A k \in MatchingEntries(t) :
                                    ~LexLess(EntryScore(aliases[t][k]),
                                               EntryScore(aliases[t][j]))}
                    first == CHOOSE j \in best : \A k \in best : j <= k
                IN \A i \in 1..Len(ReturnedMentions) :
                       ReturnedMentions[i].tiger_id = t =>
                           Reports(ReturnedMentions[i], aliases[t][first])

\* C4 witness: two different aliases of hayashi match with equal score tuples
\* and the Mention reports the first of the list.
C4_Witness ==
    /\ pc = "done"
    /\ target_tigers = Some(<<"hayashi">>)
    /\ Len(aliases["hayashi"]) = 2
    /\ MatchingEntries("hayashi") = {1, 2}
    /\ EntryScore(aliases["hayashi"][1]) = EntryScore(aliases["hayashi"][2])
    /\ aliases["hayashi"][1].alias # aliases["hayashi"][2].alias
    /\ \E i \in 1..Len(ReturnedMentions) :
          /\ ReturnedMentions[i].tiger_id = "hayashi"
          /\ Reports(ReturnedMentions[i], aliases["hayashi"][1])

\* the alias table without its malformed entries
WithoutMalformed(table) ==
    [t \in DOMAIN table |->
        SelectSeq(table[t], LAMBDA e : ~EntryRaises(e))]

\* C5 as stated: a scanned entry without its alias text or its category is
\* skipped; the call is not aborted and returns the mentions that the other
\* entries and entities produce.
C5_MalformedEntrySkipped ==
    (pc # "call" /\ ScanRaises(aliases, ScannedTargets)) =>
        /\ pc = "done"
        /\ ReturnedMentions =
              MentionsOf(WithoutMalformed(aliases), ScannedTargets,
                         normalize_text(comment_text))

\* C6: a call without a candidate list, or with an empty one, signals one
\* warning and ends exactly as the call scanning the full roster does: it
\* returns the mentions of every roster entity (the absence of the list is
\* never what makes it raise); a call with a non-empty list signals none.
C6_MissingRosterFallback ==
    pc # "call" =>
        IF target_tigers = None \/ target_tigers = Some(<<>>)
        THEN /\ warned = 1
             /\ pc = "raised" => ScanRaises(aliases, tigers)
             /\ pc = "done" =>
                   /\ ~ScanRaises(aliases, tigers)
                   /\ \A t \in DOMAIN aliases :
                         MatchingEntries(t) # {} <=>
                             \E i \in 1..Len(ReturnedMentions) :
                                 ReturnedMentions[i].tiger_id = t
        ELSE warned = 0

\* C6 witness: an empty candidate list, a warning, and Mentions of both hayashi
\* and iwai from the full roster.
C6_Witness ==
    /\ pc = "done"
    /\ target_tigers = Some(<<>>)
    /\ warned = 1
    /\ Len(ReturnedMentions) = 2

\* the positions of the occurrences of alias in text
Occurrences(text, alias) == {i \in 0..Len(text) : OccursAt(text, alias, i)}

\* the leftmost occurrence of the entry's alias with a valid left boundary
LeftValidOccurrences(e) ==
    {i \in Occurrences(result.normalized_text, e.alias) :
        ~LeftRejects(result.normalized_text, i)}

\* C10 as stated: when a comment is resolved, an alias ending in an honorific
\* suffix matches at its leftmost occurrence with a valid left boundary,
\* whatever its length and category and whatever follows it, and its entity
\* gets a Mention.
C10_Original ==
    pc = "done" =>
        \A t \in DOMAIN aliases : \A j \in 1..Len(aliases[t]) :
            (/\ InSeq(t, ScannedTargets)
             /\ SearchSuffixAtEnd(aliases[t][j].alias)
             /\ LeftValidOccurrences(aliases[t][j]) # {}) =>
                /\ j \in MatchingEntries(t)
                /\ \E i \in 1..Len(ReturnedMentions) : ReturnedMentions[i].tiger_id = t

\* the aliases the suffix policy leaves ungated: 4 or more characters, or 3
\* characters with a category other than short, casual, hiragana, katakana
Ungated(e) ==
    \/ Len(e.alias) >= 4
    \/ Len(e.alias) = 3 /\ e.type \notin {"short", "casual", "hiragana", "katakana"}

\* C10 amended: an alias ending in an honorific suffix that the suffix policy
\* leaves ungated (3 characters and a category outside short, casual, hiragana,
\* katakana, or 4 and more characters) matches at its leftmost occurrence with
\* a valid left boundary, whatever follows it, and its entity gets a Mention.
C10_OwnHonorific ==
    pc = "done" =>
        \A t \in DOMAIN aliases : \A j \in 1..Len(aliases[t]) :
            (/\ InSeq(t, ScannedTargets)
             /\ SearchSuffixAtEnd(aliases[t][j].alias)
             /\ Ungated(aliases[t][j])
             /\ LeftValidOccurrences(aliases[t][j]) # {}) =>
                /\ EntryMatchPos(aliases[t][j], result.normalized_text)
                      = Some(CHOOSE i \in LeftValidOccurrences(aliases[t][j]) :
                                \A k \in LeftValidOccurrences(aliases[t][j]) : i <= k)
                /\ \E i \in 1..Len(ReturnedMentions) : ReturnedMentions[i].tiger_id = t

\* C10 witness: hayashi's three-character alias with its own honorific is
\* followed by a kanji in the comment and is what the Mention reports.
C10_Witness ==
    /\ pc = "done"
    /\ result.normalized_text = <<"KO", "HAYASHI", "SHI", "HAYASHI">>
    /\ Len(ReturnedMentions) = 1
    /\ ReturnedMentions[1].tiger_id = "hayashi"
    /\ ReturnedMentions[1].matched_alias = <<"KO", "HAYASHI", "SHI">>

\* the entities named by the returned Mentions
MentionedEntities ==
    {ReturnedMentions[i].tiger_id : i \in 1..Len(ReturnedMentions)}

\* the scanned candidates that have an alias list
RegisteredCandidates ==
    {t \in DOMAIN aliases : InSeq(t, ScannedTargets)}

\* C13: a finished call returns a Mention for an entity exactly when the
\* entity is a scanned candidate with an alias entry that passes the matcher
\* on the normalized text; every Mention carries the alias, category and
\* priority of one such entry of its entity and nothing else; a candidate
\* without an alias list gets no Mention and never makes the call raise.
C13_MentionIffAliasMatches ==
    /\ pc = "done" =>
          /\ \A t \in {tigers[i] : i \in 1..Len(tigers)} \cup DOMAIN aliases :
                t \in MentionedEntities <=>
                    (t \in RegisteredCandidates /\ MatchingEntries(t) # {})
          /\ \A i \in 1..Len(ReturnedMentions) :
                /\ DOMAIN ReturnedMentions[i] =
                       {"tiger_id", "matched_alias", "alias_type", "priority"}
                /\ ReturnedMentions[i].tiger_id \in RegisteredCandidates
                /\ \E j \in MatchingEntries(ReturnedMentions[i].tiger_id) :
                      Reports(ReturnedMentions[i],
                              aliases[ReturnedMentions[i].tiger_id][j])
    /\ pc = "raised" =>
          \E t \in RegisteredCandidates : \E j \in 1..Len(aliases[t]) :
              ~({"alias", "type", "priority"} \subseteq DOMAIN aliases[t][j])

\* C13 witness: of the candidates noguchi and hayashi the first has no alias
\* list and the second an entry that matches and one that does not; iwai, who
\* is no candidate, has a matching alias too; the result is the one Mention
\* of hayashi.
C13_Witness ==
    /\ pc = "done"
    /\ target_tigers = Some(<<"noguchi", "hayashi">>)
    /\ "noguchi" \notin DOMAIN aliases
    /\ MatchingEntries("iwai") # {}
    /\ MatchingEntries("hayashi") # {}
    /\ Cardinality(MatchingEntries("hayashi")) < Len(aliases["hayashi"])
    /\ MentionedEntities = {"hayashi"}

-----------------------------------------------------------------------------
(* Properties of _match_alias_with_boundary and _is_word_boundary *)

\* the occurrences of m_alias in m_text that pass the boundary check and, when
\* require_suffix is set, the suffix gate
PassingOccurrences ==
    {i \in Occurrences(m_text, m_alias) :
        /\ _is_word_boundary(m_text, i, i + Len(m_alias), m_alias)
        /\ (m_require => MatchSuffix(SliceFrom(m_text, i + Len(m_alias))))}

\* C7: the matcher returns the position of the leftmost occurrence that passes
\* the boundary check (and the suffix gate when required), overlapping
\* occurrences included, and returns no match exactly when none passes.
C7_LeftmostPassingOccurrence ==
    m_pc = "return" =>
        IF PassingOccurrences = {} THEN m_ret = None
        ELSE m_ret = Some(CHOOSE i \in PassingOccurrences :
                              \A k \in PassingOccurrences : i <= k)

\* C7 witness: the returned occurrence starts inside an earlier, rejected
\* occurrence that it overlaps.
C7_Witness ==
    /\ m_pc = "return"
    /\ m_ret # None
    /\ \E i \in Occurrences(m_text, m_alias) :
          i < m_ret[1] /\ m_ret[1] < i + Len(m_alias)

\* the ten particles named by the claim
ClaimParticles == {"HA", "GA", "WO", "NI", "HE", "TO", "YA", "NO", "DE", "MO"}

\* the left side as the claim states it: rejected when the occurrence starts
\* after position 0 behind a kanji, syllabary character or ASCII alphanumeric
\* that is no particle
ClaimLeftRejected(text, pos) ==
    /\ pos > 0
    /\ text[pos] \in JAPANESE_CHAR_PATTERN \cup ALPHANUMERIC_PATTERN
    /\ text[pos] \notin ClaimParticles

\* C8: an occurrence behind a kanji, syllabary character or ASCII alphanumeric
\* that is not a particle fails the boundary check and is never returned; any
\* other occurrence gets the verdict of its right side alone (the verdict the
\* check gives with the left check skipped, start = 0).  U+6797 inside
\* U+5C0F U+6797 U+3055 U+3093 U+306E U+8A71 yields no match.
C8_LeftBoundary ==
    /\ \A i \in Occurrences(m_text, m_alias) :
          IF ClaimLeftRejected(m_text, i)
          THEN /\ ~_is_word_boundary(m_text, i, i + Len(m_alias), m_alias)
               /\ m_ret # Some(i)
          ELSE _is_word_boundary(m_text, i, i + Len(m_alias), m_alias)
                  = _is_word_boundary(m_text, 0, i + Len(m_alias), m_alias)
    /\ (m_pc = "return" /\ m_text = KobayashiText /\ m_alias = <<"HAYASHI">>)
          => m_ret = None

\* C8 witness: the matcher has returned an occurrence that follows a particle.
C8_Witness ==
    /\ m_pc = "return"
    /\ m_ret # None
    /\ m_ret[1] > 0
    /\ m_text[m_ret[1]] = "MO"
    /\ m_alias = <<"HAYASHI">>

\* the right side as the claim states it
ClaimRightPasses(text, end, alias) ==
    \/ end = Len(text)
    \/ end < Len(text) /\ text[end + 1] \notin JAPANESE_CHAR_PATTERN \cup ALPHANUMERIC_PATTERN
    \/ \E sfx \in SUFFIX_PATTERN : EndsWith(alias, sfx)
    \/ Len(alias) >= 4
    \/ \E sfx \in SUFFIX_PATTERN : StartsWith(SliceFrom(text, end), sfx)

\* C9: an occurrence whose left side is valid passes the boundary check when it
\* ends the text or is followed by a character that is not kanji, syllabary or
\* ASCII alphanumeric; followed by such a character it passes exactly when the
\* alias ends in an honorific suffix, or has 4 or more characters, or the text
\* right after it begins with an honorific suffix.
C9_RightBoundary ==
    \A i \in Occurrences(m_text, m_alias) :
        ~LeftRejects(m_text, i) =>
            (_is_word_boundary(m_text, i, i + Len(m_alias), m_alias)
                <=> ClaimRightPasses(m_text, i + Len(m_alias), m_alias))

\* C9 witness: a four-letter alias followed by a kanji that is no honorific is
\* returned by the matcher.
C9_Witness ==
    /\ m_pc = "return"
    /\ m_alias = <<"a", "a", "a", "a">>
    /\ m_ret = Some(0)
    /\ Len(m_text) = 5
    /\ m_text[5] = "HAYASHI"

\* the honorifics, as the texts that may follow a name
ClaimHonorifics ==
    {<<"SHA", "CHOU">>, <<"SA", "N">>, <<"SHI">>, <<"SEN", "SEI">>,
     <<"CHI", "SMALL_YA", "N">>, <<"KU", "N">>, <<"KIMI">>}

\* the text right after the occurrence of m_alias at i begins with an honorific
FollowedByHonorific(i) ==
    \E h \in ClaimHonorifics :
        /\ i + Len(m_alias) + Len(h) <= Len(m_text)
        /\ \A k \in 1..Len(h) : m_text[i + Len(m_alias) + k] = h[k]

\* the occurrences of m_alias that pass the boundary check
BoundaryPassing ==
    {i \in Occurrences(m_text, m_alias) :
        _is_word_boundary(m_text, i, i + Len(m_alias), m_alias)}

\* C11: with require_suffix set, a returned position passes the boundary check
\* and is followed at once by an honorific; an occurrence that passes the
\* boundary check without an honorific behind it (the end of the text included)
\* is never returned, and a later occurrence that has both is still found.
C11_SuffixGate ==
    (m_pc = "return" /\ m_require) =>
        /\ m_ret # None =>
              /\ m_ret[1] \in BoundaryPassing
              /\ FollowedByHonorific(m_ret[1])
        /\ \A i \in BoundaryPassing :
              ~FollowedByHonorific(i) =>
                 /\ m_ret # Some(i)
                 /\ (\E j \in BoundaryPassing : j > i /\ FollowedByHonorific(j))
                       => m_ret # None

\* C11 witness: with require_suffix set, the position returned lies behind an
\* occurrence that passed the boundary check but had no honorific after it, and
\* another such occurrence ends the text.
C11_Witness ==
    /\ m_pc = "return"
    /\ m_require
    /\ m_ret # None
    /\ Len(m_alias) > 0
    /\ \E i \in BoundaryPassing : i < m_ret[1] /\ ~FollowedByHonorific(i)
    /\ \E i \in BoundaryPassing : i + Len(m_alias) = Len(m_text)

-----------------------------------------------------------------------------
(* The matcher, one loop iteration per step *)

InitMatch ==
    /\ m_alias \in MatchAliases
    /\ m_text \in MatchTexts
    /\ m_require \in BOOLEAN
    /\ m_start = 0
    /\ m_pc = "loop"
    /\ m_ret = None
    /\ ResolverIdle
    /\ PolicyIdle
    /\ NormIdle
    /\ WidthIdle
    /\ VideoIdle
    /\ PeriodIdle
    /\ AnalyzeIdle
    /\ WorkersIdle
    /\ SoloIdle

\* lines 123-125: find() reports no further occurrence
MatchReturnNone ==
    /\ m_pc = "loop"
    /\ Find(m_text, m_alias, m_start) = -1
    /\ m_pc' = "return"
    /\ m_ret' = MatchIteration(m_alias, m_text, m_require, m_start).value
    /\ UNCHANGED <<m_alias, m_text, m_require, m_start>>
    /\ UNCHANGED <<resolverVars, policyVars, normVars, widthVars, videoVars, periodVars,
                   analyzeVars, workerVars, soloVars>>

\* lines 127-137: the occurrence found is accepted
MatchReturnPos ==
    /\ m_pc = "loop"
    /\ Find(m_text, m_alias, m_start) # -1
    /\ MatchIteration(m_alias, m_text, m_require, m_start).ret
    /\ m_pc' = "return"
    /\ m_ret' = MatchIteration(m_alias, m_text, m_require, m_start).value
    /\ UNCHANGED <<m_alias, m_text, m_require, m_start>>
    /\ UNCHANGED <<resolverVars, policyVars, normVars, widthVars, videoVars, periodVars,
                   analyzeVars, workerVars, soloVars>>

\* lines 139-140: the occurrence found is rejected, search again from pos + 1
MatchRetry ==
    /\ m_pc = "loop"
    /\ ~MatchIteration(m_alias, m_text, m_require, m_start).ret
    /\ m_start' = MatchIteration(m_alias, m_text, m_require, m_start).start
    /\ UNCHANGED <<m_alias, m_text, m_require, m_pc, m_ret>>
    /\ UNCHANGED <<resolverVars, policyVars, normVars, widthVars, videoVars, periodVars,
                   analyzeVars, workerVars, soloVars>>

NextMatch == MatchReturnNone \/ MatchReturnPos \/ MatchRetry

SpecMatch == InitMatch /\ [][NextMatch]_vars

-----------------------------------------------------------------------------
(* _should_require_suffix as one call *)

\* longest alias given to _should_require_suffix
MaxAliasLen == 4

\* aliases of every length up to the bound
PolicyAliases == SeqsUpTo({"HAYASHI", "SHI"}, MaxAliasLen)

\* the categories of TYPE_PRIORITY, one that is not ranked there, and the
\* empty default of alias_info.get('type', '')
PolicyTypes == DOMAIN TYPE_PRIORITY \cup {"contextual", ""}

InitPolicy ==
    /\ p_alias \in PolicyAliases
    /\ p_alias_type \in PolicyTypes
    /\ p_pc = "call"
    /\ p_ret = FALSE
    /\ ResolverIdle
    /\ MatcherIdle
    /\ NormIdle
    /\ WidthIdle
    /\ VideoIdle
    /\ PeriodIdle
    /\ AnalyzeIdle
    /\ WorkersIdle
    /\ SoloIdle

\* lines 144-163
ShouldRequireSuffix ==
    /\ p_pc = "call"
    /\ p_ret' = _should_require_suffix(p_alias, p_alias_type)
    /\ p_pc' = "return"
    /\ UNCHANGED <<p_alias, p_alias_type>>
    /\ UNCHANGED <<resolverVars, matcherVars, normVars, widthVars, videoVars, periodVars,
                   analyzeVars, workerVars, soloVars>>

NextPolicy == ShouldRequireSuffix

SpecPolicy == InitPolicy /\ [][NextPolicy]_vars

\* C12: _should_require_suffix answers true exactly when the category is one
\* of short, casual, hiragana, katakana and the alias has at most 3
\* characters, or the alias has at most 2 characters whatever its category.
C12_SuffixPolicy ==
    p_pc = "return" =>
        (p_ret = TRUE <=>
            \/ /\ p_alias_type \in {"short", "casual", "hiragana", "katakana"}
               /\ Len(p_alias) <= 3
            \/ Len(p_alias) <= 2)

\* C12 witness: a 2-character alias of a category outside the four is
\* answered with true.
C12_Witness ==
    /\ p_pc = "return"
    /\ Len(p_alias) = 2
    /\ p_alias_type = "fullname"
    /\ p_ret = TRUE

-----------------------------------------------------------------------------
(* normalize_text, applied to a text and then to its own output *)

\* longest text given to normalize_text
MaxNormLen == 5

\* characters of the texts: an ASCII letter and its full-width form, the three
\* kinds of whitespace, and the accent whose NFKC form begins with a space
NormChars == {"a", "FW_a", "SP", "TAB", "IDEO_SP", "ACUTE"}

NormTexts == SeqsUpTo(NormChars, MaxNormLen)

InitNorm ==
    /\ n_text \in NormTexts
    /\ n_pc = "call"
    /\ n_first = <<>>
    /\ n_second = <<>>
    /\ ResolverIdle
    /\ MatcherIdle
    /\ PolicyIdle
    /\ WidthIdle
    /\ VideoIdle
    /\ PeriodIdle
    /\ AnalyzeIdle
    /\ WorkersIdle
    /\ SoloIdle

\* lines 47-66, on the given text
Normalize ==
    /\ n_pc = "call"
    /\ n_first' = normalize_text(n_text)
    /\ n_pc' = "once"
    /\ UNCHANGED <<n_text, n_second>>
    /\ UNCHANGED <<resolverVars, matcherVars, policyVars, widthVars, videoVars, periodVars,
                   analyzeVars, workerVars, soloVars>>

\* lines 47-66, on the value the first call returned
NormalizeAgain ==
    /\ n_pc = "once"
    /\ n_second' = normalize_text(n_first)
    /\ n_pc' = "twice"
    /\ UNCHANGED <<n_text, n_first>>
    /\ UNCHANGED <<resolverVars, matcherVars, policyVars, widthVars, videoVars, periodVars,
                   analyzeVars, workerVars, soloVars>>

NextNorm == Normalize \/ NormalizeAgain

SpecNorm == InitNorm /\ [][NextNorm]_vars

\* C14: normalizing a normalized text changes nothing:
\* normalize_text(normalize_text(x)) = normalize_text(x).
C14_NormalizeIdempotent ==
    n_pc = "twice" => n_second = n_first

\* C14 witness: a text the first call changed (a full-width letter, a run of
\* whitespace and an accent that decomposes) is left alone by the second.
C14_Witness ==
    /\ n_pc = "twice"
    /\ n_second = n_first
    /\ \E i, j, k \in 1..Len(n_text) :
          /\ n_text[i] = "FW_a"
          /\ n_text[j] = "ACUTE"
          /\ k < Len(n_text) /\ IsSpace(n_text[k]) /\ IsSpace(n_text[k + 1])
    /\ Len(n_first) >= 3

\* the whitespace characters, as the claim counts them
ClaimWhitespace == {"SP", "TAB", "IDEO_SP"}

\* C15: the normalized text neither starts nor ends with whitespace, holds no
\* whitespace character but the ASCII space, never two spaces in a row, and is
\* empty when the text is empty or whitespace only.
C15_NormalizedWhitespace ==
    n_pc \in {"once", "twice"} =>
        /\ Len(n_first) > 0 =>
              /\ n_first[1] \notin ClaimWhitespace
              /\ n_first[Len(n_first)] \notin ClaimWhitespace
        /\ \A i \in 1..Len(n_first) :
              n_first[i] \in ClaimWhitespace => n_first[i] = "SP"
        /\ \A i \in 1..(Len(n_first) - 1) :
              ~(n_first[i] = "SP" /\ n_first[i + 1] = "SP")
        /\ (\A i \in 1..Len(n_text) : n_text[i] \in ClaimWhitespace)
              => n_first = <<>>

\* C15 witness: a text that opens with an ideographic space and holds a run of
\* a tab and a space between two letters normalizes to the two letters around
\* one space.
C15_Witness ==
    /\ n_pc = "once"
    /\ n_text = <<"IDEO_SP", "a", "TAB", "SP", "a">>
    /\ n_first = <<"a", "SP", "a">>

-----------------------------------------------------------------------------
(* find_tiger_mentions on one comment typed in two ways *)

\* longest typing of a comment
MaxWidthLen == 4

\* characters of the typings: a letter and a space, each in its half-width and
\* its full-width form, and a kanji
WidthChars == {"a", "FW_a", "SP", "IDEO_SP", "HAYASHI"}

WidthTexts == SeqsUpTo(WidthChars, MaxWidthLen)

\* the other form of a character that has a half-width and a full-width form
WidthTwin(c) ==
    CASE c = "a" -> "FW_a"
      [] c = "FW_a" -> "a"
      [] c = "SP" -> "IDEO_SP"
      [] c = "IDEO_SP" -> "SP"
      [] OTHER -> c

\* the spaces, in both forms
WidthSpaces == {"SP", "IDEO_SP"}

\* the typings one keystroke away: a character in its other form, a space
\* more in a run of spaces, or a space less in a run of at least two
Retypings(text) ==
    {[text EXCEPT ![i] = WidthTwin(text[i])] : i \in 1..Len(text)}
    \cup {SubSeq(text, 1, i) \o <<c>> \o SubSeq(text, i + 1, Len(text)) :
             i \in {k \in 1..Len(text) : text[k] \in WidthSpaces}, c \in WidthSpaces}
    \cup {SubSeq(text, 1, i - 1) \o SubSeq(text, i + 1, Len(text)) :
             i \in {k \in 1..Len(text) :
                       /\ text[k] \in WidthSpaces
                       /\ \/ (k > 1 /\ text[k - 1] \in WidthSpaces)
                          \/ (k < Len(text) /\ text[k + 1] \in WidthSpaces)}}

\* alias lists with a Latin nickname and names that hold a space
WidthAliases ==
    [t \in {"hayashi", "iwai"} |->
        IF t = "hayashi"
        THEN <<[alias |-> <<"a", "a", "a">>, type |-> "nickname", priority |-> 2],
               [alias |-> <<"a", "SP", "a">>, type |-> "fullname", priority |-> 1]>>
        ELSE <<[alias |-> <<"HAYASHI", "SP", "a">>, type |-> "nickname", priority |-> 1]>>]

WidthTargets == {None, Some(<<"hayashi">>), Some(<<"iwai", "hayashi">>)}

InitWidth ==
    /\ tigers = Roster
    /\ aliases = WidthAliases
    /\ comment_text \in WidthTexts
    /\ target_tigers \in WidthTargets
    /\ pc = "call"
    /\ result = <<>>
    /\ warned = 0
    /\ w_variant = comment_text
    /\ w_pc = "typing"
    /\ w_result = <<>>
    /\ MatcherIdle
    /\ PolicyIdle
    /\ NormIdle
    /\ VideoIdle
    /\ PeriodIdle
    /\ AnalyzeIdle
    /\ WorkersIdle
    /\ SoloIdle

\* the commenter types the same comment another way
Retype ==
    /\ pc = "call"
    /\ w_pc = "typing"
    /\ \E v \in Retypings(w_variant) :
          /\ Len(v) <= MaxWidthLen
          /\ w_variant' = v
    /\ UNCHANGED <<w_pc, w_result>>
    /\ UNCHANGED <<resolverVars, matcherVars, policyVars, normVars, videoVars, periodVars,
                   analyzeVars, workerVars, soloVars>>

\* lines 211-271 for the other typing, with the same candidate list
FindTigerMentionsOfVariant ==
    /\ pc # "call"
    /\ w_pc = "typing"
    /\ LET normalized_text == normalize_text(w_variant)
           targets == EffectiveTargets(tigers, target_tigers)
       IN /\ warned' = IF FallsBack(target_tigers) THEN warned + 1 ELSE warned
          /\ IF ScanRaises(aliases, targets)
             THEN /\ w_pc' = "raised"
                  /\ w_result' = w_result
             ELSE /\ w_pc' = "done"
                  /\ w_result' = [normalized_text |-> normalized_text,
                                  mentions |-> MentionsOf(aliases, targets, normalized_text)]
    /\ UNCHANGED <<tigers, aliases, comment_text, target_tigers, pc, result, w_variant>>
    /\ UNCHANGED <<matcherVars, policyVars, normVars, videoVars, periodVars,
                   analyzeVars, workerVars, soloVars>>

NextWidth == Retype \/ FindTigerMentions \/ FindTigerMentionsOfVariant

SpecWidth == InitWidth /\ [][NextWidth]_vars

\* C16: two typings of a comment that differ only in the width of characters
\* or in the number of spaces of a run get the same mention list, whatever the
\* candidate list.
C16_WidthInvariance ==
    (pc = "done" /\ w_pc = "done") => w_result.mentions = result.mentions

\* C16 witness: one typing uses full-width letters and a longer run of spaces,
\* the other half-width letters and one space; both get the same Mention.
C16_Witness ==
    /\ pc = "done"
    /\ w_pc = "done"
    /\ Len(comment_text) > Len(w_variant)
    /\ \E i \in 1..Len(comment_text) : comment_text[i] = "FW_a"
    /\ \A i \in 1..Len(w_variant) : w_variant[i] \in {"a", "SP"}
    /\ Len(result.mentions) = 1
    /\ w_result.mentions = result.mentions

-----------------------------------------------------------------------------
(* StatsAggregator.calculate_video_stats *)

\* self.tigers of the aggregator: tiger_id -> record of tigers.json
StatsTigers ==
    [t \in {"hayashi", "iwai", "noguchi"} |->
        [tiger_id |-> t,
         display_name |-> CASE t = "hayashi" -> "Hayashi"
                            [] t = "iwai" -> "Iwai"
                            [] t = "noguchi" -> "Noguchi"]]

\* the keys of self.tigers in file order
StatsRoster == <<"hayashi", "iwai", "noguchi">>

\* a rate is kept as the exact quotient num / den of the float the code holds
Quotient(n, d) == [num |-> n, den |-> d]

\* the int 0 the code uses when the denominator is 0
ZeroRate == Quotient(0, 1)

\* a < b, a = b on two rates
RateLess(a, b) == a.num * b.den < b.num * a.den
RateEqual(a, b) == a.num * b.den = b.num * a.den

\* line 35
N_total(comments) == Len(comments)

\* lines 38-41: the ids of the comments with a non-empty mention list
EntityCommentIds(comments) ==
    {comments[i].comment_id :
        i \in {k \in 1..Len(comments) : Len(comments[k].tiger_mentions) > 0}}

\* faulty variant: N_entity counts the mentions of the batch, not its comments
NEntityCountsMentions(comments) ==
    Cardinality({<<i, k>> \in (1..Len(comments)) \X (1..Len(StatsRoster)) :
                    k <= Len(comments[i].tiger_mentions)})

\* line 44
N_entity(comments) == Cardinality(EntityCommentIds(comments))

\* lines 51-54: the comments with a mention of tiger_id
N_tiger(comments, tiger_id) ==
    Cardinality({i \in 1..Len(comments) :
                    \E k \in 1..Len(comments[i].tiger_mentions) :
                        comments[i].tiger_mentions[k].tiger_id = tiger_id})

\* faulty variant: the share is left as a fraction of 1, not a percentage
RateAsFraction(count, denominator) ==
    IF denominator > 0 THEN Quotient(count, denominator) ELSE ZeroRate

\* lines 57 and 60: (count / denominator * 100) if denominator > 0 else 0
Rate(count, denominator) ==
    IF denominator > 0 THEN Quotient(count * 100, denominator) ELSE ZeroRate

\* lines 62-68: the record of one tiger
TigerStat(comments, tiger_id) ==
    [tiger_id |-> tiger_id,
     display_name |-> StatsTigers[tiger_id].display_name,
     N_tiger |-> N_tiger(comments, tiger_id),
     Rate_total |-> Rate(N_tiger(comments, tiger_id), N_total(comments)),
     Rate_entity |-> Rate(N_tiger(comments, tiger_id), N_entity(comments))]

\* tiger_stats[tiger_id] = stat on a dict kept as its values in key order
Store(dict, stat) ==
    IF \A k \in 1..Len(dict) : dict[k].tiger_id # stat.tiger_id
    THEN Append(dict, stat)
    ELSE [k \in 1..Len(dict) |->
             IF dict[k].tiger_id = stat.tiger_id THEN stat ELSE dict[k]]

\* lines 47-68: tiger_stats after the first n ids of appearing
RECURSIVE TigerStats(_, _, _)
TigerStats(comments, appearing, n) ==
    IF n = 0 THEN <<>>
    ELSE Store(TigerStats(comments, appearing, n - 1),
               TigerStat(comments, appearing[n]))

\* line 64: self.tigers[tiger_id] raises KeyError for an id not in the roster
VideoStatsRaises(appearing) ==
    \E i \in 1..Len(appearing) : appearing[i] \notin DOMAIN StatsTigers

\* faulty variant: an element is placed ahead of the elements with an equal key
InsertDescendingBeforeEqual(order, i, keys) ==
    LET ahead == {k \in 0..Len(order) :
                    \A j \in 1..k : RateLess(keys[i], keys[order[j]])}
        at == CHOOSE k \in ahead : \A j \in ahead : j <= k
    IN SubSeq(order, 1, at) \o <<i>> \o SubSeq(order, at + 1, Len(order))

\* sorted(..., reverse=True) places an element behind every element whose key
\* is not smaller (the sort is stable); order holds the positions of the
\* elements placed so far, keys the key of every element
InsertDescending(order, i, keys) ==
    LET ahead == {k \in 0..Len(order) :
                    \A j \in 1..k : ~RateLess(keys[order[j]], keys[i])}
        at == CHOOSE k \in ahead : \A j \in ahead : j <= k
    IN SubSeq(order, 1, at) \o <<i>> \o SubSeq(order, at + 1, Len(order))

RECURSIVE DescendingOrder(_, _)
DescendingOrder(keys, n) ==
    IF n = 0 THEN <<>>
    ELSE InsertDescending(DescendingOrder(keys, n - 1), n, keys)

\* sorted(stats, key=..., reverse=True) for the given keys
SortedDescending(stats, keys) ==
    LET order == DescendingOrder(keys, Len(stats))
    IN [k \in 1..Len(stats) |-> stats[order[k]]]

\* faulty variant: enumerate(sorted_stats) without start=1
WithRanksFromZero(sorted_stats) ==
    [k \in 1..Len(sorted_stats) |->
        [f \in DOMAIN sorted_stats[k] \cup {"rank"} |->
            IF f = "rank" THEN k - 1 ELSE sorted_stats[k][f]]]

\* lines 77-78 and 177-178: stat['rank'] = rank from enumerate(..., start=1)
WithRanks(sorted_stats) ==
    [k \in 1..Len(sorted_stats) |->
        [f \in DOMAIN sorted_stats[k] \cup {"rank"} |->
            IF f = "rank" THEN k ELSE sorted_stats[k][f]]]

\* lines 35-84; tiger_stats of the result is kept as its values in key order
calculate_video_stats(comments, appearing) ==
    LET tiger_stats == TigerStats(comments, appearing, Len(appearing))
        sorted_stats == SortedDescending(
                            tiger_stats,
                            [k \in 1..Len(tiger_stats) |-> tiger_stats[k].Rate_total])
    IN [N_total |-> N_total(comments),
        N_entity |-> N_entity(comments),
        tiger_stats |-> WithRanks(sorted_stats)]

\* most comments of a batch
MaxComments == 3

\* a mention, as find_tiger_mentions returns it
MentionOf(t) ==
    [tiger_id |-> t, matched_alias |-> <<"HAYASHI">>, alias_type |-> "short", priority |-> 1]

\* the mention lists of a comment: none, one tiger, two tigers
MentionLists ==
    {<<>>, <<MentionOf("hayashi")>>, <<MentionOf("iwai")>>,
     <<MentionOf("hayashi"), MentionOf("iwai")>>}

\* analyzed comments; the collector does not remove a comment it fetched
\* twice, so an id may repeat in a batch
AnalyzedComments ==
    [comment_id : {"c1", "c2", "c3"}, tiger_mentions : MentionLists]

CommentBatches == SeqsUpTo(AnalyzedComments, MaxComments)

\* appearing-tiger lists: none, one, two in both orders, a repeated id, one
\* who is never mentioned, three tigers, an id that is not in the roster
AppearingLists ==
    {<<>>, <<"hayashi">>, <<"hayashi", "iwai">>, <<"iwai", "hayashi">>,
     <<"hayashi", "iwai", "hayashi">>, <<"noguchi", "iwai">>,
     <<"noguchi", "iwai", "hayashi">>, <<"hayashi", "kuwata">>}

InitVideo ==
    /\ analyzed_comments \in CommentBatches
    /\ appearing_tigers \in AppearingLists
    /\ v_pc = "call"
    /\ v_ret = <<>>
    /\ ResolverIdle
    /\ MatcherIdle
    /\ PolicyIdle
    /\ NormIdle
    /\ WidthIdle
    /\ PeriodIdle
    /\ AnalyzeIdle
    /\ WorkersIdle
    /\ SoloIdle

\* lines 19-84; the KeyError of line 64 ends the call without a result
CalculateVideoStats ==
    /\ v_pc = "call"
    /\ IF VideoStatsRaises(appearing_tigers)
       THEN /\ v_pc' = "raised"
            /\ v_ret' = v_ret
       ELSE /\ v_pc' = "done"
            /\ v_ret' = calculate_video_stats(analyzed_comments, appearing_tigers)
    /\ UNCHANGED <<analyzed_comments, appearing_tigers>>
    /\ UNCHANGED <<resolverVars, matcherVars, policyVars, normVars, widthVars, periodVars,
                   analyzeVars, workerVars, soloVars>>

NextVideo == CalculateVideoStats

SpecVideo == InitVideo /\ [][NextVideo]_vars

-----------------------------------------------------------------------------
(* Properties of calculate_video_stats *)

\* the records of the returned tiger_stats
VideoRecords == {v_ret.tiger_stats[k] : k \in 1..Len(v_ret.tiger_stats)}

\* the comments of the batch (positions) with at least one mention
MentioningComments ==
    {i \in 1..Len(analyzed_comments) : analyzed_comments[i].tiger_mentions # <<>>}

\* the comments of the batch (positions) that mention tiger t
CommentsMentioning(t) ==
    {i \in 1..Len(analyzed_comments) :
        \E k \in 1..Len(analyzed_comments[i].tiger_mentions) :
            analyzed_comments[i].tiger_mentions[k].tiger_id = t}

\* C17 as stated: N_total is the number of comments of the batch, N_entity the
\* number of its comments with at least one mention (a comment that mentions
\* two tigers counted once), and N_tiger of every record the number of
\* comments that mention that tiger.
C17_CommentCounts ==
    v_pc = "done" =>
        /\ v_ret.N_total = Len(analyzed_comments)
        /\ v_ret.N_entity = Cardinality(MentioningComments)
        /\ \A s \in VideoRecords :
              s.N_tiger = Cardinality(CommentsMentioning(s.tiger_id))

\* the rate equals count / denominator * 100
IsPercentage(rate, count, denominator) ==
    rate.num * denominator = count * 100 * rate.den

\* C18: every record has Rate_total = N_tiger / N_total * 100 and
\* Rate_entity = N_tiger / N_entity * 100, each 0 when its denominator is 0;
\* a batch that is empty or mentions nobody never makes the call raise (only
\* an appearing id outside the roster does).
C18_RatesAndZeroDenominators ==
    /\ v_pc = "done" =>
          \A s \in VideoRecords :
              /\ IF v_ret.N_total = 0 THEN s.Rate_total.num = 0
                 ELSE IsPercentage(s.Rate_total, s.N_tiger, v_ret.N_total)
              /\ IF v_ret.N_entity = 0 THEN s.Rate_entity.num = 0
                 ELSE IsPercentage(s.Rate_entity, s.N_tiger, v_ret.N_entity)
              /\ s.Rate_total.den > 0
              /\ s.Rate_entity.den > 0
    /\ v_pc = "raised" =>
          \E i \in 1..Len(appearing_tigers) :
              appearing_tigers[i] \notin {"hayashi", "iwai", "noguchi"}

\* C18 witness: a batch of comments none of which mentions anyone: N_total is
\* positive, N_entity is 0, and the two records have both rates 0.
C18_Witness ==
    /\ v_pc = "done"
    /\ Len(analyzed_comments) > 0
    /\ MentioningComments = {}
    /\ v_ret.N_total > 0
    /\ v_ret.N_entity = 0
    /\ Len(v_ret.tiger_stats) = 2
    /\ \A s \in VideoRecords : s.Rate_total.num = 0 /\ s.Rate_entity.num = 0

\* 0 <= rate <= 100
WithinPercent(rate) ==
    /\ rate.den > 0
    /\ rate.num >= 0
    /\ rate.num <= 100 * rate.den

\* C19 as stated: every record has 0 <= Rate_total <= 100 and
\* 0 <= Rate_entity <= 100, that is N_tiger <= N_entity <= N_total, and
\* Rate_total = 0 when N_total = 0.
C19_RateBounds ==
    v_pc = "done" =>
        \A s \in VideoRecords :
            /\ WithinPercent(s.Rate_total)
            /\ WithinPercent(s.Rate_entity)
            /\ s.N_tiger <= v_ret.N_entity
            /\ v_ret.N_entity <= v_ret.N_total
            /\ v_ret.N_total = 0 => s.Rate_total.num = 0

-----------------------------------------------------------------------------
(* StatsAggregator.calculate_period_stats *)

\* lines 138-147: the record a tiger starts with
PeriodStart(tiger_id) ==
    [tiger_id |-> tiger_id,
     display_name |-> StatsTigers[tiger_id].display_name,
     total_mentions |-> 0,
     appearance_count |-> 0,
     avg_rate_total |-> ZeroRate,
     avg_rate_entity |-> ZeroRate,
     total_rate_total |-> ZeroRate,
     total_rate_entity |-> ZeroRate]

\* lines 136-147: period_stats as its values in the key order of self.tigers
PeriodStatsStart == [k \in 1..Len(StatsRoster) |-> PeriodStart(StatsRoster[k])]

\* a + b on two rates
RateSum(a, b) == Quotient(a.num * b.den + b.num * a.den, a.den * b.den)

\* tiger_id in video_stat['stats']['tiger_stats'] (line 155)
InTigerStats(tiger_stats, tiger_id) ==
    \E k \in 1..Len(tiger_stats) : tiger_stats[k].tiger_id = tiger_id

\* video_stat['stats']['tiger_stats'][tiger_id] (line 158)
TigerData(tiger_stats, tiger_id) ==
    tiger_stats[CHOOSE k \in 1..Len(tiger_stats) : tiger_stats[k].tiger_id = tiger_id]

\* lines 159-162 on the record of tiger_id
Accumulate(period_stats, tiger_id, tiger_data) ==
    [k \in 1..Len(period_stats) |->
        IF period_stats[k].tiger_id = tiger_id
        THEN [period_stats[k] EXCEPT
                 !.total_mentions = @ + tiger_data.N_tiger,
                 !.appearance_count = @ + 1,
                 !.total_rate_total = RateSum(@, tiger_data.Rate_total),
                 !.total_rate_entity = RateSum(@, tiger_data.Rate_entity)]
        ELSE period_stats[k]]

\* lines 154-162: one video, after the first n ids of its appearing list
RECURSIVE AfterTigers(_, _, _, _)
AfterTigers(period_stats, tiger_stats, appearing, n) ==
    IF n = 0 THEN period_stats
    ELSE LET before == AfterTigers(period_stats, tiger_stats, appearing, n - 1)
         IN IF InTigerStats(tiger_stats, appearing[n])
            THEN Accumulate(before, appearing[n], TigerData(tiger_stats, appearing[n]))
            ELSE before

\* appearing_tigers_map.get(video_id, []) (line 152)
AppearingOf(map, video_id) == IF video_id \in DOMAIN map THEN map[video_id] ELSE <<>>

\* lines 150-162: period_stats after the first n videos
RECURSIVE AfterVideos(_, _, _)
AfterVideos(list, map, n) ==
    IF n = 0 THEN PeriodStatsStart
    ELSE LET appearing == AppearingOf(map, list[n].video_id)
         IN AfterTigers(AfterVideos(list, map, n - 1),
                        list[n].stats.tiger_stats, appearing, Len(appearing))

\* line 159: period_stats[tiger_id] raises KeyError for a tiger that a video
\* reports but the roster does not hold
PeriodStatsRaises(list, map) ==
    \E n \in 1..Len(list) :
        LET appearing == AppearingOf(map, list[n].video_id)
        IN \E i \in 1..Len(appearing) :
              /\ InTigerStats(list[n].stats.tiger_stats, appearing[i])
              /\ appearing[i] \notin DOMAIN StatsTigers

\* faulty variant: the averages are taken without the test of line 166
WithAveragesUnguarded(period_stats) ==
    [k \in 1..Len(period_stats) |->
        [period_stats[k] EXCEPT
            !.avg_rate_total =
                Quotient(period_stats[k].total_rate_total.num,
                         period_stats[k].total_rate_total.den
                             * period_stats[k].appearance_count),
            !.avg_rate_entity =
                Quotient(period_stats[k].total_rate_entity.num,
                         period_stats[k].total_rate_entity.den
                             * period_stats[k].appearance_count)]]

\* lines 165-168
WithAverages(period_stats) ==
    [k \in 1..Len(period_stats) |->
        IF period_stats[k].appearance_count > 0
        THEN [period_stats[k] EXCEPT
                 !.avg_rate_total =
                     Quotient(period_stats[k].total_rate_total.num,
                              period_stats[k].total_rate_total.den
                                  * period_stats[k].appearance_count),
                 !.avg_rate_entity =
                     Quotient(period_stats[k].total_rate_entity.num,
                              period_stats[k].total_rate_entity.den
                                  * period_stats[k].appearance_count)]
        ELSE period_stats[k]]

\* faulty variant: the records are sorted by appearance_count
PeriodStatsByAppearances(list, map) ==
    LET period_stats == WithAverages(AfterVideos(list, map, Len(list)))
        sorted_stats == SortedDescending(
                            period_stats,
                            [k \in 1..Len(period_stats) |->
                                Quotient(period_stats[k].appearance_count, 1)])
    IN [tiger_stats |-> WithRanks(sorted_stats)]

\* lines 136-182; tiger_stats of the result is kept as its values in key order
calculate_period_stats(list, map) ==
    LET period_stats == WithAverages(AfterVideos(list, map, Len(list)))
        sorted_stats == SortedDescending(
                            period_stats,
                            [k \in 1..Len(period_stats) |->
                                Quotient(period_stats[k].total_mentions, 1)])
    IN [tiger_stats |-> WithRanks(sorted_stats)]

\* most videos of a period
MaxVideos == 2

\* the ids of the videos, in the order they are added
VideoIds == <<"v1", "v2", "v3">>

\* one analyzed comment
Comment(id, mentioned) ==
    [comment_id |-> id,
     tiger_mentions |-> [k \in 1..Len(mentioned) |-> MentionOf(mentioned[k])]]

\* batches of the videos of a period: no comment, hayashi ahead of iwai,
\* hayashi and iwai level
PeriodBatches ==
    {<<>>,
     <<Comment("c1", <<"hayashi">>), Comment("c2", <<"hayashi", "iwai">>),
       Comment("c3", <<>>)>>,
     <<Comment("c1", <<"iwai">>), Comment("c2", <<"hayashi">>)>>}

\* appearing lists of the videos of a period
PeriodAppearing == {<<"hayashi", "iwai">>, <<"iwai", "noguchi">>}

\* lists registered in appearing_tigers_map besides the video's own one: a
\* different cast, and a list that names a tiger twice
PeriodMapLists == {<<"noguchi", "hayashi">>, <<"hayashi", "hayashi", "iwai">>}

InitPeriod ==
    /\ analyzed_comments \in PeriodBatches
    /\ appearing_tigers \in PeriodAppearing
    /\ v_pc = "call"
    /\ v_ret = <<>>
    /\ video_stats_list = <<>>
    /\ appearing_tigers_map = <<>>
    /\ q_pc = "collect"
    /\ q_ret = <<>>
    /\ ResolverIdle
    /\ MatcherIdle
    /\ PolicyIdle
    /\ NormIdle
    /\ WidthIdle
    /\ AnalyzeIdle
    /\ WorkersIdle
    /\ SoloIdle

\* the caller puts the stats of a video on video_stats_list (lines 127-128),
\* registers its appearing tigers or not (lines 129-130), and turns to the
\* next video
AddVideo ==
    /\ q_pc = "collect"
    /\ v_pc = "done"
    /\ Len(video_stats_list) < MaxVideos
    /\ LET video_id == VideoIds[Len(video_stats_list) + 1]
       IN /\ video_stats_list' =
                Append(video_stats_list, [video_id |-> video_id, stats |-> v_ret])
          /\ \/ appearing_tigers_map' = appearing_tigers_map
             \/ \E l \in {appearing_tigers} \cup PeriodMapLists :
                   appearing_tigers_map' =
                       [v \in DOMAIN appearing_tigers_map \cup {video_id} |->
                           IF v = video_id THEN l ELSE appearing_tigers_map[v]]
    /\ analyzed_comments' \in PeriodBatches
    /\ appearing_tigers' \in PeriodAppearing
    /\ v_pc' = "call"
    /\ v_ret' = <<>>
    /\ UNCHANGED <<q_pc, q_ret>>
    /\ UNCHANGED <<resolverVars, matcherVars, policyVars, normVars, widthVars,
                   analyzeVars, workerVars, soloVars>>

\* lines 118-182; the KeyError of line 159 ends the call without a result
CalculatePeriodStats ==
    /\ q_pc = "collect"
    /\ IF PeriodStatsRaises(video_stats_list, appearing_tigers_map)
       THEN /\ q_pc' = "raised"
            /\ q_ret' = q_ret
       ELSE /\ q_pc' = "done"
            /\ q_ret' = calculate_period_stats(video_stats_list, appearing_tigers_map)
    /\ UNCHANGED <<video_stats_list, appearing_tigers_map>>
    /\ UNCHANGED <<resolverVars, matcherVars, policyVars, normVars, widthVars, videoVars,
                   analyzeVars, workerVars, soloVars>>

NextPeriod == CalculateVideoStats \/ AddVideo \/ CalculatePeriodStats

SpecPeriod == InitPeriod /\ [][NextPeriod]_vars

-----------------------------------------------------------------------------
(* Properties of the ranks *)

\* the ranks of the records are the numbers 1..K, each on one record
RanksAreOneToK(tiger_stats) ==
    /\ {tiger_stats[k].rank : k \in 1..Len(tiger_stats)} = 1..Len(tiger_stats)
    /\ \A i, j \in 1..Len(tiger_stats) :
          i # j => /\ tiger_stats[i].rank # tiger_stats[j].rank
                   /\ tiger_stats[i].tiger_id # tiger_stats[j].tiger_id

\* C20: the ranks in a result of calculate_video_stats and in a result of
\* calculate_period_stats are exactly 1..K, each used once, K the number of
\* records of the result; records with equal keys get different ranks.
C20_RanksWithoutGaps ==
    /\ v_pc = "done" => RanksAreOneToK(v_ret.tiger_stats)
    /\ \A n \in 1..Len(video_stats_list) :
          RanksAreOneToK(video_stats_list[n].stats.tiger_stats)
    /\ q_pc = "done" => RanksAreOneToK(q_ret.tiger_stats)

\* C20 witness: a period result in which two tigers with the same positive
\* total_mentions have different ranks, over a video whose two records have
\* the same Rate_total and the ranks 1 and 2.
C20_Witness ==
    /\ q_pc = "done"
    /\ Len(q_ret.tiger_stats) = 3
    /\ \E i, j \in 1..3 :
          /\ i # j
          /\ q_ret.tiger_stats[i].total_mentions = q_ret.tiger_stats[j].total_mentions
          /\ q_ret.tiger_stats[i].total_mentions > 0
          /\ q_ret.tiger_stats[i].rank # q_ret.tiger_stats[j].rank
    /\ \E n \in 1..Len(video_stats_list) :
          LET ts == video_stats_list[n].stats.tiger_stats
          IN /\ Len(ts) = 2
             /\ ts[1].N_tiger > 0
             /\ RateEqual(ts[1].Rate_total, ts[2].Rate_total)
             /\ ts[1].rank = 1
             /\ ts[2].rank = 2

-----------------------------------------------------------------------------
(* Properties of the rank order *)

\* the position of the first occurrence of x in seq
FirstIndex(seq, x) == CHOOSE i \in 1..Len(seq) : seq[i] = x /\ \A j \in 1..(i - 1) : seq[j] # x

\* C21: in the result of calculate_video_stats a record with a strictly
\* higher Rate_total has a strictly smaller rank, and of two records with
\* equal Rate_total the one whose tiger is listed earlier in appearing_tigers
\* has the smaller rank.
C21_VideoRankOrder ==
    v_pc = "done" =>
        \A s, t \in VideoRecords :
            /\ RateLess(t.Rate_total, s.Rate_total) => s.rank < t.rank
            /\ (/\ RateEqual(s.Rate_total, t.Rate_total)
                /\ FirstIndex(appearing_tigers, s.tiger_id)
                       < FirstIndex(appearing_tigers, t.tiger_id)) => s.rank < t.rank

\* C21 witness: noguchi, iwai and hayashi appear in this order; iwai and
\* hayashi have the same positive Rate_total and noguchi has none, so iwai
\* is first, hayashi second and noguchi, listed first, is third.
C21_Witness ==
    /\ v_pc = "done"
    /\ appearing_tigers = <<"noguchi", "iwai", "hayashi">>
    /\ Len(v_ret.tiger_stats) = 3
    /\ v_ret.tiger_stats[1].tiger_id = "iwai"
    /\ v_ret.tiger_stats[2].tiger_id = "hayashi"
    /\ v_ret.tiger_stats[3].tiger_id = "noguchi"
    /\ v_ret.tiger_stats[1].Rate_total.num > 0
    /\ RateEqual(v_ret.tiger_stats[1].Rate_total, v_ret.tiger_stats[2].Rate_total)
    /\ RateLess(v_ret.tiger_stats[3].Rate_total, v_ret.tiger_stats[2].Rate_total)
    /\ v_ret.tiger_stats[1].rank = 1
    /\ v_ret.tiger_stats[2].rank = 2
    /\ v_ret.tiger_stats[3].rank = 3

-----------------------------------------------------------------------------
(* Properties of calculate_period_stats *)

\* the records of the returned period tiger_stats
PeriodRecords == {q_ret.tiger_stats[k] : k \in 1..Len(q_ret.tiger_stats)}

\* the list registered for the n-th video of the period, none when the map
\* does not hold the video
ListedFor(n) ==
    IF video_stats_list[n].video_id \in DOMAIN appearing_tigers_map
    THEN appearing_tigers_map[video_stats_list[n].video_id]
    ELSE <<>>

\* the record of tiger e in the stats of the n-th video, if there is one
HasRecord(n, e) ==
    \E k \in 1..Len(video_stats_list[n].stats.tiger_stats) :
        video_stats_list[n].stats.tiger_stats[k].tiger_id = e

RecordOf(n, e) ==
    LET ts == video_stats_list[n].stats.tiger_stats
    IN ts[CHOOSE k \in 1..Len(ts) : ts[k].tiger_id = e]

\* the n-th video is counted for tiger e: its own list names e and its stats
\* have a record of e
IsCounted(n, e) ==
    /\ HasRecord(n, e)
    /\ \E i \in 1..Len(ListedFor(n)) : ListedFor(n)[i] = e

\* the videos of the period that are counted for tiger e
CountedVideos(e) == {n \in 1..Len(video_stats_list) : IsCounted(n, e)}

\* the sum of the first n numbers of seq
RECURSIVE SumUpTo(_, _)
SumUpTo(seq, n) == IF n = 0 THEN 0 ELSE SumUpTo(seq, n - 1) + seq[n]

\* the sum of the tiger's N_tiger over the videos counted for e
CountedMentions(e) ==
    SumUpTo([n \in 1..Len(video_stats_list) |->
                IF IsCounted(n, e) THEN RecordOf(n, e).N_tiger ELSE 0],
            Len(video_stats_list))

\* C22 as stated: a video adds to a tiger's appearance_count, total_mentions
\* and rate sums only when the tiger is in the list the map holds for that
\* video and the video's stats have a record of the tiger; a video that is
\* missing from the map, or whose list does not name the tiger, adds
\* nothing. After all videos total_mentions is the sum of the tiger's
\* N_tiger over exactly the videos counted in appearance_count.
C22_PeriodAccumulation ==
    q_pc = "done" =>
        \A s \in PeriodRecords :
            /\ CountedVideos(s.tiger_id) = {} =>
                  /\ s.appearance_count = 0
                  /\ s.total_mentions = 0
                  /\ s.total_rate_total.num = 0
                  /\ s.total_rate_entity.num = 0
            /\ s.appearance_count > 0 => CountedVideos(s.tiger_id) # {}
            /\ s.total_mentions = CountedMentions(s.tiger_id)

\* average = sum / count
IsAverage(average, sum, count) ==
    /\ average.den > 0
    /\ average.num * sum.den * count = sum.num * average.den

\* C23: the result of calculate_period_stats has one record for every tiger
\* of the roster, also for one who appears in no video; avg_rate_total and
\* avg_rate_entity are the summed rates divided by appearance_count, and for
\* a tiger who never appeared they are 0, with appearance_count 0 and
\* total_mentions 0 (nothing is divided by zero).
C23_PeriodAverages ==
    q_pc = "done" =>
        /\ Len(q_ret.tiger_stats) = 3
        /\ {s.tiger_id : s \in PeriodRecords} = {"hayashi", "iwai", "noguchi"}
        /\ \A s \in PeriodRecords :
              /\ CountedVideos(s.tiger_id) = {} => s.appearance_count = 0
              /\ IF s.appearance_count = 0
                 THEN /\ s.total_mentions = 0
                      /\ s.avg_rate_total.num = 0 /\ s.avg_rate_total.den > 0
                      /\ s.avg_rate_entity.num = 0 /\ s.avg_rate_entity.den > 0
                 ELSE /\ IsAverage(s.avg_rate_total, s.total_rate_total,
                                   s.appearance_count)
                      /\ IsAverage(s.avg_rate_entity, s.total_rate_entity,
                                   s.appearance_count)

\* C23 witness: over two videos hayashi is counted twice with different
\* rates, so the average lies strictly between them, and noguchi, counted
\* for no video, has a record with 0 everywhere.
C23_Witness ==
    /\ q_pc = "done"
    /\ Len(video_stats_list) = 2
    /\ CountedVideos("hayashi") = {1, 2}
    /\ RateLess(RecordOf(1, "hayashi").Rate_total, RecordOf(2, "hayashi").Rate_total)
    /\ \E s \in PeriodRecords :
          /\ s.tiger_id = "hayashi"
          /\ s.appearance_count = 2
          /\ RateLess(RecordOf(1, "hayashi").Rate_total, s.avg_rate_total)
          /\ RateLess(s.avg_rate_total, RecordOf(2, "hayashi").Rate_total)
    /\ CountedVideos("noguchi") = {}
    /\ \E s \in PeriodRecords :
          /\ s.tiger_id = "noguchi"
          /\ s.appearance_count = 0
          /\ s.total_mentions = 0
          /\ s.avg_rate_total.num = 0
          /\ s.avg_rate_entity.num = 0

\* C24: in the result of calculate_period_stats a record with strictly more
\* total_mentions has a strictly smaller rank, and of two records with equal
\* total_mentions the one whose tiger is earlier in the roster has the
\* smaller rank.
C24_PeriodRankOrder ==
    q_pc = "done" =>
        \A s, t \in PeriodRecords :
            /\ s.total_mentions > t.total_mentions => s.rank < t.rank
            /\ (/\ s.total_mentions = t.total_mentions
                /\ FirstIndex(<<"hayashi", "iwai", "noguchi">>, s.tiger_id)
                       < FirstIndex(<<"hayashi", "iwai", "noguchi">>, t.tiger_id))
                   => s.rank < t.rank

\* C24 witness: iwai, second in the roster, has the most mentions and rank
\* 1; hayashi and noguchi have equally many, hayashi appeared less often
\* than noguchi, and hayashi, earlier in the roster, has rank 2.
C24_Witness ==
    /\ q_pc = "done"
    /\ \E s, t, u \in PeriodRecords :
          /\ s.tiger_id = "iwai" /\ t.tiger_id = "hayashi" /\ u.tiger_id = "noguchi"
          /\ s.total_mentions > t.total_mentions
          /\ t.total_mentions = u.total_mentions
          /\ t.appearance_count < u.appearance_count
          /\ s.rank = 1 /\ t.rank = 2 /\ u.rank = 3

\* every rate of every video of the period is within 0..100
PerVideoRatesWithinPercent ==
    \A n \in 1..Len(video_stats_list) :
        \A k \in 1..Len(video_stats_list[n].stats.tiger_stats) :
            /\ WithinPercent(video_stats_list[n].stats.tiger_stats[k].Rate_total)
            /\ WithinPercent(video_stats_list[n].stats.tiger_stats[k].Rate_entity)

\* C30 as stated: in the result of calculate_period_stats every record has
\* appearance_count at most the number of entries of video_stats_list, and
\* when every per-video rate is within 0..100 so are avg_rate_total and
\* avg_rate_entity; for every appearing map, also one whose list for a video
\* names the same tiger more than once.
C30_PeriodBounds ==
    q_pc = "done" =>
        \A s \in PeriodRecords :
            /\ s.appearance_count <= Len(video_stats_list)
            /\ PerVideoRatesWithinPercent =>
                  /\ WithinPercent(s.avg_rate_total)
                  /\ WithinPercent(s.avg_rate_entity)

-----------------------------------------------------------------------------
(* CommentAnalyzer.analyze_comments, and its caller *)

\* faulty variant: the result holds the derived fields only
ResultRecordDerivedOnly(comment, analysis_result) ==
    [normalized_text |-> analysis_result.normalized_text,
     tiger_mentions |-> analysis_result.mentions]

\* lines 296-300: {**comment, 'normalized_text': ..., 'tiger_mentions': ...};
\* a key the comment already holds takes the new value
ResultRecord(comment, analysis_result) ==
    [f \in DOMAIN comment \cup {"normalized_text", "tiger_mentions"} |->
        IF f = "normalized_text" THEN analysis_result.normalized_text
        ELSE IF f = "tiger_mentions" THEN analysis_result.mentions
        ELSE comment[f]]

\* the alias table of the example: hayashi U+6797 U+793E U+9577 (formal, 1)
\* and U+6797 (short, 2), iwai U+5CA9 U+4E95 U+793E U+9577 (formal, 1)
ScenarioAliases ==
    [t \in {"hayashi", "iwai"} |->
        IF t = "hayashi"
        THEN <<[alias |-> <<"HAYASHI", "SHA", "CHOU">>, type |-> "formal", priority |-> 1],
               [alias |-> <<"HAYASHI">>, type |-> "short", priority |-> 2]>>
        ELSE <<[alias |-> <<"IWA", "WELL", "SHA", "CHOU">>, type |-> "formal",
                priority |-> 1]>>]

\* the same table with an entry of iwai that lacks its category
ScenarioAliasesMalformed ==
    [t \in {"hayashi", "iwai"} |->
        IF t = "hayashi" THEN ScenarioAliases[t]
        ELSE Append(ScenarioAliases[t], [alias |-> <<"IWA", "WELL">>, priority |-> 2])]

\* the comment texts of the example
ScenarioText1 == <<"HAYASHI", "SHA", "CHOU", "SU", "GO", "I", "BANG">>
ScenarioText2 ==
    <<"IWA", "WELL", "SHA", "CHOU", "TO", "HAYASHI", "SHA", "CHOU", "NO",
      "TAI", "KETSU", "GA", "OMO", "SHIRO", "I">>
ScenarioText3 == <<"OMO", "SHIRO", "KA", "SMALL_TSU", "TA">>

\* texts of the comments: those of the example, the first one typed with a
\* full-width !, U+6797 U+3055 U+3093, U+6797 on its own
AnalyzeTexts ==
    {ScenarioText1, ScenarioText2, ScenarioText3,
     <<"HAYASHI", "SHA", "CHOU", "SU", "GO", "I", "FW_BANG">>,
     <<"HAYASHI", "SA", "N">>, <<"HAYASHI">>}

\* most comments given to analyze_comments
MaxBatch == 3

\* the comments as the callers build them: numbered from 1, with the fields
\* comment_id, text, video_id and like_count
CommentIds == <<"1", "2", "3", "4">>

CommentsOf(texts) ==
    [i \in 1..Len(texts) |->
        [comment_id |-> CommentIds[i], text |-> texts[i],
         video_id |-> "test", like_count |-> 0]]

\* the lists the caller passes to analyze_comments and calculate_video_stats
\* alike
SelectedTigers ==
    {<<"hayashi", "iwai">>, <<"iwai", "hayashi">>, <<"hayashi">>, <<>>}

InitAnalyze ==
    /\ tigers \in {<<"hayashi", "iwai">>, StatsRoster}
    /\ aliases \in {ScenarioAliases, ScenarioAliasesMalformed}
    /\ comment_text = <<>>
    /\ target_tigers \in {Some(l) : l \in SelectedTigers}
    /\ pc = "idle"
    /\ result = <<>>
    /\ warned = 0
    /\ a_comments \in {CommentsOf(texts) : texts \in SeqsUpTo(AnalyzeTexts, MaxBatch)}
    /\ a_pc = "loop"
    /\ a_results = <<>>
    /\ MatcherIdle
    /\ PolicyIdle
    /\ NormIdle
    /\ WidthIdle
    /\ VideoIdle
    /\ PeriodIdle
    /\ WorkersIdle
    /\ SoloIdle

\* lines 290-300: one pass of the loop; find_tiger_mentions warns when it
\* falls back to the roster, and its KeyError ends analyze_comments
AnalyzeComment ==
    /\ a_pc = "loop"
    /\ Len(a_results) < Len(a_comments)
    /\ LET comment == a_comments[Len(a_results) + 1]
           normalized_text == normalize_text(comment.text)
           targets == EffectiveTargets(tigers, target_tigers)
       IN /\ warned' = IF FallsBack(target_tigers) THEN warned + 1 ELSE warned
          /\ IF ScanRaises(aliases, targets)
             THEN /\ a_pc' = "raised"
                  /\ a_results' = a_results
             ELSE /\ a_pc' = a_pc
                  /\ a_results' =
                        Append(a_results,
                               ResultRecord(
                                   comment,
                                   [normalized_text |-> normalized_text,
                                    mentions |-> MentionsOf(aliases, targets,
                                                            normalized_text)]))
    /\ UNCHANGED <<a_comments, tigers, aliases, comment_text, target_tigers, pc, result>>
    /\ UNCHANGED <<matcherVars, policyVars, normVars, widthVars, videoVars, periodVars,
                   workerVars, soloVars>>

\* line 302: return results
AnalyzeReturn ==
    /\ a_pc = "loop"
    /\ Len(a_results) = Len(a_comments)
    /\ a_pc' = "done"
    /\ UNCHANGED <<a_comments, a_results>>
    /\ UNCHANGED <<resolverVars, matcherVars, policyVars, normVars, widthVars, videoVars,
                   periodVars, workerVars, soloVars>>

\* the caller hands the results and its list to calculate_video_stats
\* (src/app.py lines 499-505, stats_aggregator.py lines 202-206)
CallVideoStats ==
    /\ a_pc = "done"
    /\ v_pc = "idle"
    /\ analyzed_comments' = a_results
    /\ appearing_tigers' = target_tigers[1]
    /\ v_pc' = "call"
    /\ v_ret' = v_ret
    /\ UNCHANGED <<resolverVars, matcherVars, policyVars, normVars, widthVars, periodVars,
                   analyzeVars, workerVars, soloVars>>

NextAnalyze == AnalyzeComment \/ AnalyzeReturn \/ CallVideoStats \/ CalculateVideoStats

SpecAnalyze == InitAnalyze /\ [][NextAnalyze]_vars

-----------------------------------------------------------------------------
(* The example of the specification *)

\* the inputs of the example: the roster hayashi and iwai with the alias
\* table of the example, both tigers candidates, the three comments
ScenarioInputs ==
    /\ tigers = <<"hayashi", "iwai">>
    /\ aliases = ScenarioAliases
    /\ target_tigers = Some(<<"hayashi", "iwai">>)
    /\ a_comments = CommentsOf(<<ScenarioText1, ScenarioText2, ScenarioText3>>)

\* the pairs <<tiger_id, matched_alias>> of a result's mentions
MentionPairs(analyzed) ==
    {<<analyzed.tiger_mentions[k].tiger_id, analyzed.tiger_mentions[k].matched_alias>> :
        k \in 1..Len(analyzed.tiger_mentions)}

\* the record of tiger t in the stats of the video
VideoRecord(t) == CHOOSE s \in VideoRecords : s.tiger_id = t

\* C25: on the inputs of the example comment 1 has one mention, hayashi by
\* U+6797 U+793E U+9577; comment 2 has two, hayashi by U+6797 U+793E U+9577
\* and iwai by U+5CA9 U+4E95 U+793E U+9577; comment 3 has none; and
\* calculate_video_stats gives N_total 3, N_entity 2, hayashi N_tiger 2 with
\* Rate_total 200/3 and rank 1, iwai N_tiger 1 with Rate_total 100/3 and
\* rank 2.
C25_Scenario ==
    ScenarioInputs =>
        /\ a_pc # "raised"
        /\ a_pc = "done" =>
              /\ Len(a_results) = 3
              /\ Len(a_results[1].tiger_mentions) = 1
              /\ MentionPairs(a_results[1]) = {<<"hayashi", <<"HAYASHI", "SHA", "CHOU">>>>}
              /\ Len(a_results[2].tiger_mentions) = 2
              /\ MentionPairs(a_results[2]) =
                    {<<"hayashi", <<"HAYASHI", "SHA", "CHOU">>>>,
                     <<"iwai", <<"IWA", "WELL", "SHA", "CHOU">>>>}
              /\ a_results[3].tiger_mentions = <<>>
        /\ v_pc \notin {"idle", "call"} =>
              /\ v_pc = "done"
              /\ v_ret.N_total = 3
              /\ v_ret.N_entity = 2
              /\ {s.tiger_id : s \in VideoRecords} = {"hayashi", "iwai"}
              /\ Len(v_ret.tiger_stats) = 2
              /\ VideoRecord("hayashi").N_tiger = 2
              /\ IsPercentage(VideoRecord("hayashi").Rate_total, 2, 3)
              /\ VideoRecord("hayashi").rank = 1
              /\ VideoRecord("iwai").N_tiger = 1
              /\ IsPercentage(VideoRecord("iwai").Rate_total, 1, 3)
              /\ VideoRecord("iwai").rank = 2

\* C25 witness: the example has run to its end: the three comments are
\* analyzed and the stats of the video are returned.
C25_Witness ==
    /\ ScenarioInputs
    /\ a_pc = "done"
    /\ Len(a_results) = 3
    /\ v_pc = "done"
    /\ v_ret.N_total = 3
    /\ Len(v_ret.tiger_stats) = 2

-----------------------------------------------------------------------------
(* find_tiger_mentions called by several workers at a time *)

\* the workers
NumWorkers == 2

Workers == 1..NumWorkers

\* faulty variant: the locals are kept in one place for all calls
FrameSharedByAll(w) == 1

\* normalized_text, all_matches and the loop position are locals of the call
\* (lines 211, 222, 225): each call has its own frame
FrameOf(w) == w

\* the comments the workers resolve
WorkerTexts ==
    {<<>>, <<"HAYASHI", "SHI">>, <<"KO", "SHI">>,
     <<"IDEO_SP", "KO", "SHI", "SP", "SP", "HAYASHI", "SHI">>}

\* the alias tables: hayashi by U+6797 or U+5C0F and iwai by U+6797, and a
\* table with a malformed entry of hayashi
WorkerTables ==
    {AliasTable(<<[alias |-> <<"HAYASHI">>, type |-> "short", priority |-> 2],
                  [alias |-> <<"KO">>, type |-> "short", priority |-> 2]>>),
     AliasTable(<<[alias |-> <<"KO">>, type |-> "casual", priority |-> 2],
                  [alias |-> <<"HAYASHI">>, priority |-> 1]>>)}

\* the candidate lists of the calls
WorkerTargets == {None, Some(<<"iwai", "hayashi">>), Some(<<"iwai">>)}

InitWorkers ==
    /\ tigers = Roster
    /\ aliases \in WorkerTables
    /\ comment_text = <<>>
    /\ target_tigers = <<>>
    /\ pc = "idle"
    /\ result = <<>>
    /\ warned = 0
    /\ call_text \in [Workers -> WorkerTexts]
    /\ call_targets \in [Workers -> WorkerTargets]
    /\ call_pc = [w \in Workers |-> "call"]
    /\ call_normalized = [w \in Workers |-> <<>>]
    /\ call_scanned = [w \in Workers |-> 0]
    /\ call_matches = [w \in Workers |-> <<>>]
    /\ call_result = [w \in Workers |-> <<>>]
    /\ MatcherIdle
    /\ PolicyIdle
    /\ NormIdle
    /\ WidthIdle
    /\ VideoIdle
    /\ PeriodIdle
    /\ AnalyzeIdle
    /\ SoloIdle

\* lines 211-222 of the call of worker w: normalize, fall back to the roster
\* with a warning, start all_matches
WorkerEnter(w) ==
    /\ call_pc[w] = "call"
    /\ call_normalized' =
          [call_normalized EXCEPT ![FrameOf(w)] = normalize_text(call_text[w])]
    /\ warned' = IF FallsBack(call_targets[w]) THEN warned + 1 ELSE warned
    /\ call_matches' = [call_matches EXCEPT ![FrameOf(w)] = <<>>]
    /\ call_scanned' = [call_scanned EXCEPT ![FrameOf(w)] = 0]
    /\ call_pc' = [call_pc EXCEPT ![w] = "scan"]
    /\ UNCHANGED <<call_text, call_targets, call_result>>
    /\ UNCHANGED <<tigers, aliases, comment_text, target_tigers, pc, result>>
    /\ UNCHANGED <<matcherVars, policyVars, normVars, widthVars, videoVars, periodVars,
                   analyzeVars, soloVars>>

\* lines 225-249 of the call of worker w: one candidate of the loop; the
\* KeyError of lines 230-232 ends the call
WorkerScan(w) ==
    /\ call_pc[w] = "scan"
    /\ LET targets == EffectiveTargets(tigers, call_targets[w])
           n == call_scanned[FrameOf(w)]
       IN /\ n < Len(targets)
          /\ IF ScanRaises(aliases, <<targets[n + 1]>>)
             THEN /\ call_pc' = [call_pc EXCEPT ![w] = "raised"]
                  /\ UNCHANGED <<call_matches, call_scanned>>
             ELSE /\ call_matches' =
                        [call_matches EXCEPT
                            ![FrameOf(w)] =
                                @ \o TigerMatches(aliases, targets[n + 1],
                                                  call_normalized[FrameOf(w)])]
                  /\ call_scanned' = [call_scanned EXCEPT ![FrameOf(w)] = n + 1]
                  /\ call_pc' = call_pc
    /\ UNCHANGED <<call_text, call_targets, call_normalized, call_result>>
    /\ UNCHANGED <<resolverVars, matcherVars, policyVars, normVars, widthVars, videoVars,
                   periodVars, analyzeVars, soloVars>>

\* lines 251-271 of the call of worker w
WorkerReturn(w) ==
    /\ call_pc[w] = "scan"
    /\ call_scanned[FrameOf(w)] >= Len(EffectiveTargets(tigers, call_targets[w]))
    /\ LET all_matches == call_matches[FrameOf(w)]
       IN call_result' =
              [call_result EXCEPT
                  ![w] = [normalized_text |-> call_normalized[FrameOf(w)],
                          mentions |-> Mentions(BestMatches(all_matches,
                                                            Len(all_matches)))]]
    /\ call_pc' = [call_pc EXCEPT ![w] = "done"]
    /\ UNCHANGED <<call_text, call_targets, call_normalized, call_scanned, call_matches>>
    /\ UNCHANGED <<resolverVars, matcherVars, policyVars, normVars, widthVars, videoVars,
                   periodVars, analyzeVars, soloVars>>

NextWorkers ==
    \E w \in Workers : WorkerEnter(w) \/ WorkerScan(w) \/ WorkerReturn(w)

SpecWorkers == InitWorkers /\ [][NextWorkers]_vars

\* what find_tiger_mentions returns for a comment resolved on its own
ResolvedAlone(text, target) ==
    [normalized_text |-> normalize_text(text),
     mentions |-> MentionsOf(aliases, EffectiveTargets(tigers, target),
                             normalize_text(text))]

\* C26: find_tiger_mentions leaves the roster and the alias table as they
\* are, and when several workers resolve comments in any interleaving, the
\* result of each call is the result of resolving its comment alone,
\* whatever the other workers resolved before or at the same time.
C26_Stateless ==
    /\ [](\A w \in Workers :
             /\ call_pc[w] = "done" =>
                   call_result[w] = ResolvedAlone(call_text[w], call_targets[w])
             /\ call_pc[w] = "raised" =>
                   ScanRaises(aliases, EffectiveTargets(tigers, call_targets[w])))
    /\ [][tigers' = tigers /\ aliases' = aliases]_vars

\* C26 witness: worker 1 has returned two mentions for its comment while
\* worker 2 is in the middle of its scan of another comment, with a match of
\* that comment in its all_matches.
C26_Witness ==
    /\ call_pc[1] = "done"
    /\ Len(call_result[1].mentions) = 2
    /\ call_pc[2] = "scan"
    /\ call_text[2] # call_text[1]
    /\ call_scanned[2] = 1
    /\ Len(call_matches[2]) > 0
    /\ call_matches[2][1].alias # call_result[1].mentions[1].matched_alias

-----------------------------------------------------------------------------
(* Frame of analyze_comments *)

\* the result carries every field of the comment with its value, and besides
\* them normalized_text and tiger_mentions only
CarriesComment(analyzed, comment) ==
    /\ DOMAIN analyzed = DOMAIN comment \cup {"normalized_text", "tiger_mentions"}
    /\ \A f \in DOMAIN comment : analyzed[f] = comment[f]

\* C27: analyze_comments never changes its input: the list of comments and
\* every record of it stay as they were; the results stand in the order of
\* the comments, one for each, and each result carries every field of its
\* comment unchanged plus the derived fields normalized_text and
\* tiger_mentions only.
C27_AnalyzeFrame ==
    /\ [](/\ Len(a_results) <= Len(a_comments)
          /\ a_pc = "done" => Len(a_results) = Len(a_comments)
          /\ \A i \in 1..Len(a_results) : CarriesComment(a_results[i], a_comments[i]))
    /\ [][a_comments' = a_comments]_vars

\* C27 witness: three comments with different texts are analyzed; the second
\* result has two mentions, the third none, and the first has the text of
\* its comment next to a normalized_text that differs from it.
C27_Witness ==
    /\ a_pc = "done"
    /\ Len(a_comments) = 3
    /\ Len(a_results) = 3
    /\ a_comments[1].text # a_comments[2].text
    /\ a_comments[2].text # a_comments[3].text
    /\ a_results[1].text = a_comments[1].text
    /\ a_results[1].normalized_text # a_comments[1].text
    /\ a_results[1].comment_id = "1"
    /\ Len(a_results[2].tiger_mentions) = 2
    /\ a_results[3].tiger_mentions = <<>>

-----------------------------------------------------------------------------
(* Termination of _match_alias_with_boundary *)

\* longest text of the calls whose end is awaited
MaxScanLen == 4

\* the calls of InitMatch on the texts of at most MaxScanLen characters and
\* on the two longer examples
InitMatchFair ==
    /\ m_text \in SeqsUpTo(MatchChars, MaxScanLen) \cup {KobayashiText, SuffixGateText}
    /\ InitMatch

\* the call keeps running: the loop of lines 122-140 has no step at which
\* the call waits for anything, so a pass that can be taken is taken
SpecMatchFair == InitMatchFair /\ [][NextMatch]_vars /\ WF_vars(NextMatch)

\* C28: the scan of _match_alias_with_boundary ends for every alias and
\* every text, also for the empty alias and for an alias whose occurrences
\* overlap: every pass that does not return moves start to a strictly
\* higher index, at most one behind the end of the text, and the call
\* returns, with an accepted position or with None.
C28_MatcherTerminates ==
    /\ <>(m_pc = "return")
    /\ [][m_pc' = "loop" => m_start' > m_start /\ m_start' <= Len(m_text) + 1]_vars
    /\ [](m_pc = "return" =>
             \/ m_ret = None
             \/ /\ m_ret # None
                /\ m_ret[1] >= m_start
                /\ OccursAt(m_text, m_alias, m_ret[1]))

\* C28 witness: the empty alias on a text of two or more characters: every
\* position of the text and the one behind its end were tried and rejected,
\* start has passed the end of the text and the call has returned None.
C28_Witness ==
    /\ m_pc = "return"
    /\ m_alias = <<>>
    /\ Len(m_text) >= 2
    /\ m_start = Len(m_text) + 1
    /\ m_ret = None

-----------------------------------------------------------------------------
(* find_tiger_mentions for a candidate list and for one of its candidates *)

\* longest comment resolved both ways
MaxSoloLen == 4

SoloTexts == SeqsUpTo(CommentChars, MaxSoloLen)

\* the candidate lists L: one tiger, two, a repeated id, a tiger without an
\* alias list
SoloLists ==
    {<<"hayashi">>, <<"iwai">>, <<"iwai", "hayashi">>, <<"hayashi", "iwai", "hayashi">>,
     <<"noguchi", "hayashi">>}

InitSolo ==
    /\ tigers = Roster
    /\ comment_text \in SoloTexts
    /\ aliases \in {AliasTable(l) : l \in RosterLists}
    /\ target_tigers \in {Some(l) : l \in SoloLists}
    /\ pc = "call"
    /\ result = <<>>
    /\ warned = 0
    /\ solo_tiger \in {target_tigers[1][i] : i \in 1..Len(target_tigers[1])}
    /\ solo_pc = "call"
    /\ solo_result = <<>>
    /\ MatcherIdle
    /\ PolicyIdle
    /\ NormIdle
    /\ WidthIdle
    /\ VideoIdle
    /\ PeriodIdle
    /\ AnalyzeIdle
    /\ WorkersIdle

\* lines 211-271 for find_tiger_mentions(comment_text, [solo_tiger])
FindTigerMentionsSolo ==
    /\ solo_pc = "call"
    /\ LET normalized_text == normalize_text(comment_text)
           targets == EffectiveTargets(tigers, Some(<<solo_tiger>>))
       IN /\ warned' = IF FallsBack(Some(<<solo_tiger>>)) THEN warned + 1 ELSE warned
          /\ IF ScanRaises(aliases, targets)
             THEN /\ solo_pc' = "raised"
                  /\ solo_result' = solo_result
             ELSE /\ solo_pc' = "done"
                  /\ solo_result' =
                        [normalized_text |-> normalized_text,
                         mentions |-> MentionsOf(aliases, targets, normalized_text)]
    /\ UNCHANGED <<tigers, aliases, comment_text, target_tigers, pc, result, solo_tiger>>
    /\ UNCHANGED <<matcherVars, policyVars, normVars, widthVars, videoVars, periodVars,
                   analyzeVars, workerVars>>

NextSolo == FindTigerMentions \/ FindTigerMentionsSolo

SpecSolo == InitSolo /\ [][NextSolo]_vars

\* what a call gives for tiger e: no result when it raised, else the mention
\* of e or none
OutcomeFor(e, call_state, returned) ==
    IF call_state = "raised" THEN [raised |-> TRUE, mentions |-> {}]
    ELSE [raised |-> FALSE,
          mentions |-> {returned.mentions[k] :
                           k \in {j \in 1..Len(returned.mentions) :
                                     returned.mentions[j].tiger_id = e}}]

\* C29 as stated: for every text and every candidate list L with tiger E in
\* it, find_tiger_mentions(text, L) gives for E what
\* find_tiger_mentions(text, [E]) gives, the same mention or none: the
\* aliases and matches of the other candidates, also of one who shares an
\* alias text with E, do not change it; and the mentions stand in the order
\* in which their tigers first occur in L.
C29_Independence ==
    (pc \in {"done", "raised"} /\ solo_pc \in {"done", "raised"}) =>
        /\ OutcomeFor(solo_tiger, pc, result)
              = OutcomeFor(solo_tiger, solo_pc, solo_result)
        /\ pc = "done" =>
              \A i, j \in 1..Len(result.mentions) :
                  i < j => FirstIndex(target_tigers[1], result.mentions[i].tiger_id)
                             < FirstIndex(target_tigers[1], result.mentions[j].tiger_id)

====
